---- MODULE Spec2Model ----
(***************************************************************************)
(* Model of the schema validation library (schema.js): ValidationResult,   *)
(* BaseValidator and its variants, and the Schema factory.  A validator is  *)
(* built by factory and chained configuration calls and then run by         *)
(* validate(value, path).  Model of the Sea Battle game (SeaBattleGame with *)
(* Board, Ship, Player and AIPlayer): the ships are placed and the game     *)
(* loop alternates the player's turn and the CPU's turn.                    *)
(***************************************************************************)
EXTENDS Integers, Sequences, FiniteSets, TLC

VARIABLES validator, steps, input, inPath, result, again, lastIndex, registered,
          game, loop, stack, enigma

vars == <<validator, steps, input, inPath, result, again, lastIndex, registered,
          game, loop, stack, enigma>>

\* the state of the Sea Battle game
gameVars == <<game, loop>>
\* the calls of a validate call in progress, and the Enigma machine
idleVars == <<stack, enigma>>
\* the state of the validation library
schemaVars ==
  <<validator, steps, input, inPath, result, again, lastIndex, registered>>

(***************************************************************************)
(* Bounds of the model.                                                    *)
(***************************************************************************)
\* number of factory and configuration calls made to build one validator
MaxSteps == 2
\* number of calls that build a validator of nested arrays, objects and unions
MaxDepth == 3
\* the side of a board: the default size of the Board constructor, scaled down
BoardSize == 3
\* number of guesses the player makes in one game
MaxTurns == 2
\* number of errors of a result that addError and merge are called on
MaxErrors == 4
\* the nested calls the call stack has room for
MaxStack == 4
\* the characters one machine is given
MaxKeys == 2

(***************************************************************************)
(* JavaScript values.  A string value is a sequence of one-character       *)
(* strings so that length and regular expressions are computed; messages    *)
(* are TLA+ strings.                                                        *)
(***************************************************************************)
Undefined == [t |-> "undefined"]
Null == [t |-> "null"]
Bool(b) == [t |-> "boolean", b |-> b]
\* a finite number: n, or n + 0.5 when half
Num(n) == [t |-> "number", n |-> n, half |-> FALSE]
Half(n) == [t |-> "number", n |-> n, half |-> TRUE]
\* twice the number, which orders the numbers
Twice(v) ==
  IF v.t = "Infinity" THEN v.sign * 1000000  \* beyond every finite number
  ELSE 2 * v.n + (IF v.half THEN 1 ELSE 0)
\* the text of a number in a template string
NumberText(v) ==
  IF ~v.half THEN ToString(v.n)
  ELSE IF v.n >= 0 THEN ToString(v.n) \o ".5"
  ELSE IF v.n = -1 THEN "-0.5"
  ELSE ToString(v.n + 1) \o ".5"
NaN == [t |-> "NaN"]
\* Infinity and -Infinity
Infinity == [t |-> "Infinity", sign |-> 1]
NegativeInfinity == [t |-> "Infinity", sign |-> -1]
\* Number.isInteger(v) for a number
IsInteger(v) == v.t = "number" /\ ~v.half
Str(s) == [t |-> "string", s |-> s]
Arr(items) == [t |-> "array", items |-> items]
\* own enumerable properties in insertion order: a sequence of <<key, value>>
Obj(props) == [t |-> "object", props |-> props]
\* a Date object holding a time value in milliseconds
Date(ms) == [t |-> "date", ms |-> ms]
InvalidDate == [t |-> "invalidDate"]
\* an Error object as created by new Error(message)
Error(message) == [t |-> "error", message |-> message]
Fn(name) == [t |-> "function", name |-> name]
\* a RegExp object without flags, and one with the g flag
RegExp(source) == [t |-> "regexp", source |-> source, global |-> FALSE]
GlobalRegExp(source) == [t |-> "regexp", source |-> source, global |-> TRUE]
\* a message string (customMessage)
Msg(m) == [t |-> "message", m |-> m]

\* typeof value
TypeOf(v) ==
  CASE v.t = "undefined" -> "undefined"
    [] v.t = "boolean" -> "boolean"
    [] v.t \in {"number", "NaN", "Infinity"} -> "number"
    [] v.t = "string" -> "string"
    [] v.t = "function" -> "function"
    [] OTHER -> "object"

\* only undefined is tested
IsNullish_UndefinedOnly(v) == v.t = "undefined"

\* value === undefined || value === null
IsNullish(v) == v.t \in {"undefined", "null"}

\* the truthiness that || and && and if() test
Truthy(v) ==
  CASE v.t \in {"undefined", "null", "NaN"} -> FALSE
    [] v.t = "boolean" -> v.b
    [] v.t = "number" -> Twice(v) # 0
    [] v.t = "string" -> v.s # <<>>
    [] v.t = "message" -> v.m # ""
    [] OTHER -> TRUE

RECURSIVE Join(_, _)
\* Array.prototype.join on an array of message strings
Join(strs, sep) ==
  IF strs = <<>> THEN ""
  ELSE IF Len(strs) = 1 THEN strs[1]
  ELSE strs[1] \o sep \o Join(Tail(strs), sep)

\* the text of a string value
Text(chars) == Join(chars, "")

\* the names every object inherits from Object.prototype
ObjectPrototypeKeys ==
  {"constructor", "hasOwnProperty", "isPrototypeOf", "propertyIsEnumerable",
   "toLocaleString", "toString", "valueOf", "__proto__"}

\* Object.keys(value)
ObjectKeys(v) ==
  IF v.t = "object" THEN [i \in 1..Len(v.props) |-> v.props[i][1]] ELSE <<>>

OwnKeys(props) == {props[i][1] : i \in 1..Len(props)}

\* props[key] for an own key
OwnGet(props, key) ==
  LET i == CHOOSE j \in 1..Len(props) : props[j][1] = key IN props[i][2]

\* key in object: own or inherited
In(key, props) == key \in OwnKeys(props) \/ key \in ObjectPrototypeKeys

\* the value itself is handed on
Get_Self(v, key) == v

\* value[key]: an own property, an inherited method, or undefined
Get(v, key) ==
  IF v.t = "object" /\ key \in OwnKeys(v.props) THEN OwnGet(v.props, key)
  ELSE IF key \in ObjectPrototypeKeys THEN Fn(key)
  ELSE Undefined

(***************************************************************************)
(* ValidationResult.  trace is the record of the validate, _validate and    *)
(* transformFn calls made while the result was computed; threw marks a call *)
(* that ended by an exception instead of a result.                          *)
(***************************************************************************)
ValidationResult(isValid, errors, value) ==
  [threw |-> FALSE, isValid |-> isValid, errors |-> errors, value |-> value,
   trace |-> <<>>]

success(value) == ValidationResult(TRUE, <<>>, value)

\* failure(errors, value = null) called with an array of messages
failure(errors) == ValidationResult(FALSE, errors, Null)

\* failure(error, value = null) called with one message, which is wrapped
failureOf(error) == failure(<<error>>)

\* self.addError(error): self afterwards
addError(self, error) ==
  [self EXCEPT !.errors = Append(@, error), !.isValid = FALSE]

\* self.merge(otherResult): self afterwards
merge(self, otherResult) ==
  IF ~otherResult.isValid
  THEN [self EXCEPT !.isValid = FALSE, !.errors = @ \o otherResult.errors]
  ELSE self

Throw(thrown, trace) == [threw |-> TRUE, thrown |-> thrown, trace |-> trace]

WithTrace(r, trace) == [r EXCEPT !.trace = trace \o r.trace]

Call(fn, self, arg) == [call |-> fn, self |-> self, arg |-> arg]

\* a result, an exception or an accumulator r, with the lastIndex that the
\* RegExp objects have when it is produced
At(r, heap) == [lastIndex |-> heap] @@ r

(***************************************************************************)
(* Functions registered by transform(fn).  Apply gives the returned value   *)
(* or the thrown value.                                                     *)
(***************************************************************************)
TransformFns == {"box", "throwError", "throwNull", "throwString"}

Apply(fn, value) ==
  CASE fn.name = "box" -> [threw |-> FALSE, value |-> Arr(<<value>>)]
    [] fn.name = "throwError" ->
         [threw |-> TRUE, thrown |-> Error("Transform error")]
    [] fn.name = "throwNull" -> [threw |-> TRUE, thrown |-> Null]
    [] fn.name = "throwString" ->
         [threw |-> TRUE, thrown |-> Str(<<"o", "o", "p", "s">>)]

\* `${error.message}` in the catch clause: reading a property of null or
\* undefined throws a TypeError; a value without the property gives undefined
ErrorMessage(thrown) ==
  IF IsNullish(thrown)
  THEN [threw |-> TRUE,
        thrown |-> Error("Cannot read properties of " \o thrown.t)]
  ELSE IF thrown.t = "error" THEN [threw |-> FALSE, text |-> thrown.message]
  ELSE [threw |-> FALSE, text |-> "undefined"]

(***************************************************************************)
(* Regular expressions: RegExp.prototype.test on the three patterns used.   *)
(***************************************************************************)
Whitespace == {" "}
UpperCase == {"A", "B", "H", "I"}

NoSpaceAt(chars, lo, hi) ==
  lo <= hi /\ \A i \in lo..hi : chars[i] \notin (Whitespace \cup {"@"})

\* /^[^\s@]+@[^\s@]+\.[^\s@]+$/
EmailTest(chars) ==
  \E a \in 1..Len(chars), d \in 1..Len(chars) :
     /\ a < d
     /\ chars[a] = "@"
     /\ chars[d] = "."
     /\ NoSpaceAt(chars, 1, a - 1)
     /\ NoSpaceAt(chars, a + 1, d - 1)
     /\ NoSpaceAt(chars, d + 1, Len(chars))

\* /^https?:\/\/.+/  (the dot matches any character but a line terminator)
UrlTest(chars) ==
  LET n == IF Len(chars) >= 5 /\ chars[5] = "s" THEN 5 ELSE 4 IN
  /\ Len(chars) >= n + 4
  /\ SubSeq(chars, 1, 4) = <<"h", "t", "t", "p">>
  /\ SubSeq(chars, n + 1, n + 3) = <<":", "/", "/">>
  /\ chars[n + 4] # "\n"

\* /^[A-Z]+$/
UpperTest(chars) == chars # <<>> /\ \A i \in 1..Len(chars) : chars[i] \in UpperCase

\* the pattern matches the whole of chars
Matches(regex, chars) ==
  CASE regex.source = "email" -> EmailTest(chars)
    [] regex.source = "url" -> UrlTest(chars)
    [] regex.source = "upper" -> UpperTest(chars)

\* regex.lastIndex, where heap holds the lastIndex of the RegExp objects that
\* were given to pattern(); the others are never written
LastIndexOf(regex, heap) == IF regex \in DOMAIN heap THEN heap[regex] ELSE 0

\* regex.test(chars): a regex with the g flag searches from lastIndex on, and
\* sets lastIndex to the end of the match, or to 0 when there is none; every
\* pattern starts with ^, which matches at index 0 only, and the upper
\* pattern ends with $, so that its match ends at the end of chars
RegExpTest(regex, chars, heap) ==
  IF ~regex.global THEN [matched |-> Matches(regex, chars), lastIndex |-> heap]
  ELSE
    LET matched == LastIndexOf(regex, heap) = 0 /\ Matches(regex, chars)
        index == IF matched THEN Len(chars) ELSE 0
    IN [matched |-> matched,
        lastIndex |-> [r \in DOMAIN heap |-> IF r = regex THEN index ELSE heap[r]]]

(***************************************************************************)
(* Dates.  Time values are small numbers of milliseconds after the epoch.   *)
(***************************************************************************)
Digit(n) == ToString(n)

\* Date.prototype.toISOString for a time value below one second
toISOString(ms) ==
  "1970-01-01T00:00:00." \o Digit(ms \div 100) \o Digit((ms \div 10) % 10)
     \o Digit(ms % 10) \o "Z"

\* the string values that new Date(string) can read: the others give an
\* invalid date
DateStrings ==
  [ms \in 0..9 |-> <<"1", "9", "7", "0", "-", "0", "1", "-", "0", "1", "T",
                     "0", "0", ":", "0", "0", ":", "0", "0", ".", "0", "0",
                     Digit(ms), "Z">>]

\* new Date(value) for a string or a number
NewDate(value) ==
  CASE value.t = "number" -> Date(value.n)  \* the fraction is dropped
    [] value.t \in {"NaN", "Infinity"} -> InvalidDate
    [] value.t = "string" ->
         IF \E ms \in DOMAIN DateStrings : DateStrings[ms] = value.s
         THEN Date(CHOOSE ms \in DOMAIN DateStrings : DateStrings[ms] = value.s)
         ELSE InvalidDate

(***************************************************************************)
(* JSON.stringify, as a message string; "undefined" stands for the          *)
(* undefined that it returns for undefined and for functions.               *)
(***************************************************************************)
RECURSIVE JSONstringify(_)
JSONstringify(v) ==
  CASE v.t \in {"undefined", "function"} -> "undefined"
    [] v.t \in {"null", "NaN", "Infinity", "invalidDate"} -> "null"
    [] v.t = "boolean" -> IF v.b THEN "true" ELSE "false"
    [] v.t = "number" -> NumberText(v)
    [] v.t = "string" -> "\"" \o Text(v.s) \o "\""
    [] v.t = "date" -> "\"" \o toISOString(v.ms) \o "\""
    [] v.t = "array" ->
         "[" \o Join([i \in 1..Len(v.items) |->
                        IF v.items[i].t \in {"undefined", "function"}
                        THEN "null" ELSE JSONstringify(v.items[i])], ",") \o "]"
    [] v.t = "object" ->
         LET kept == SelectSeq(v.props,
                       LAMBDA p : p[2].t \notin {"undefined", "function"})
         IN "{" \o Join([i \in 1..Len(kept) |->
                        "\"" \o kept[i][1] \o "\":" \o JSONstringify(kept[i][2])],
                        ",") \o "}"

\* a === b: primitives by value, objects by identity; the objects of an
\* input are never the objects held by a validator
StrictEquals(a, b) ==
  /\ a.t = b.t
  /\ a.t \in {"undefined", "null", "boolean", "number", "Infinity", "string"}
  /\ a = b

(***************************************************************************)
(* Validators: the fields set by the constructors.                          *)
(***************************************************************************)
BaseValidator(kind) ==
  [kind |-> kind, isOptionalField |-> FALSE, customMessage |-> Null,
   transformFn |-> Null]

StringValidator ==
  BaseValidator("string") @@
  [minLen |-> Null, maxLen |-> Null, patternRegex |-> Null, enumValues |-> Null]

NumberValidator ==
  BaseValidator("number") @@
  [minVal |-> Null, maxVal |-> Null, isIntegerOnly |-> FALSE,
   isPositiveOnly |-> FALSE]

BooleanValidator == BaseValidator("boolean")

DateValidator == BaseValidator("date") @@ [minDate |-> Null, maxDate |-> Null]

ArrayValidator(itemValidator) ==
  BaseValidator("array") @@
  [itemValidator |-> itemValidator, minItems |-> Null, maxItems |-> Null,
   uniqueItems |-> FALSE]

\* schema: the fields in declaration order, a sequence of <<key, validator>>;
\* requiredKeys: a Set, held in insertion order
ObjectValidator(schema) ==
  BaseValidator("object") @@
  [schema |-> schema, allowUnknownKeys |-> FALSE, requiredKeys |-> <<>>]

UnionValidator(validators) ==
  BaseValidator("union") @@ [validators |-> validators]

LiteralValidator(value) == BaseValidator("literal") @@ [value |-> value]

AnyValidator == BaseValidator("any")

\* the location is appended to the custom message too
formatError_LocatedCustom(self, message, path) ==
  LET location == IF path # "" THEN " at " \o path ELSE "" IN
  (IF Truthy(self.customMessage) THEN self.customMessage.m ELSE message)
     \o location

\* the location is left out
formatError_NoLocation(self, message, path) ==
  IF Truthy(self.customMessage) THEN self.customMessage.m ELSE message

\* _formatError(message, path)
formatError(self, message, path) ==
  LET location == IF path # "" THEN " at " \o path ELSE "" IN
  IF Truthy(self.customMessage) THEN self.customMessage.m
  ELSE message \o location

(***************************************************************************)
(* The variants' _validate(value, path).                                    *)
(***************************************************************************)
\* the comparison admits an empty list of errors
Collected_AlwaysFailure(errors, value) ==
  IF Len(errors) >= 0 THEN failure(errors) ELSE success(value)

\* errors.length > 0 ? failure(errors) : success(value)
Collected(errors, value) ==
  IF Len(errors) > 0 THEN failure(errors) ELSE success(value)

\* the checks end at the first one that is violated
Violations_FirstOnly(checks) ==
  LET failed == SelectSeq(checks, LAMBDA c : c[1]) IN
  IF failed = <<>> THEN <<>> ELSE <<failed[1][2]>>

\* the messages of the checks that are violated, in the order of the checks
Violations(checks) ==
  LET failed == SelectSeq(checks, LAMBDA c : c[1]) IN
  [i \in 1..Len(failed) |-> failed[i][2]]

\* Array.prototype.includes
Includes(items, value) == \E i \in 1..Len(items) : StrictEquals(items[i], value)

StringValidator_validate(self, value, path, heap) ==
  IF TypeOf(value) # "string"
  THEN At(failureOf(formatError(self, "Must be a string", path)), heap)
  ELSE
    LET tested == IF Truthy(self.patternRegex)
                  THEN RegExpTest(self.patternRegex, value.s, heap)
                  ELSE [matched |-> TRUE, lastIndex |-> heap]
    IN At(Collected(Violations(<<
    <<self.minLen # Null /\ 2 * Len(value.s) < Twice(self.minLen),
      formatError(self, "Must be at least " \o JSONstringify(self.minLen)
                          \o " characters long", path)>>,
    <<self.maxLen # Null /\ 2 * Len(value.s) > Twice(self.maxLen),
      formatError(self, "Must be at most " \o JSONstringify(self.maxLen)
                          \o " characters long", path)>>,
    <<Truthy(self.patternRegex) /\ ~tested.matched,
      formatError(self, "Does not match required pattern", path)>>,
    <<Truthy(self.enumValues) /\ ~Includes(self.enumValues.items, value),
      IF Truthy(self.enumValues)
      THEN formatError(self, "Must be one of: " \o
             Join([i \in 1..Len(self.enumValues.items) |->
                     Text(self.enumValues.items[i].s)], ", "), path)
      ELSE "">> >>), value), tested.lastIndex)

NumberValidator_validate(self, value, path) ==
  IF TypeOf(value) # "number" \/ value.t = "NaN"
  THEN failureOf(formatError(self, "Must be a valid number", path))
  ELSE Collected(Violations(<<
    <<self.minVal # Null /\ Twice(value) < Twice(self.minVal),
      formatError(self, "Must be at least " \o JSONstringify(self.minVal), path)>>,
    <<self.maxVal # Null /\ Twice(value) > Twice(self.maxVal),
      formatError(self, "Must be at most " \o JSONstringify(self.maxVal), path)>>,
    <<self.isIntegerOnly /\ ~IsInteger(value),
      formatError(self, "Must be an integer", path)>>,
    <<self.isPositiveOnly /\ Twice(value) <= 0,
      formatError(self, "Must be positive", path)>> >>), value)

BooleanValidator_validate(self, value, path) ==
  IF TypeOf(value) # "boolean"
  THEN failureOf(formatError(self, "Must be a boolean", path))
  ELSE success(value)

DateValidator_validate(self, value, path) ==
  LET date == IF value.t \in {"date", "invalidDate"} THEN value
              ELSE IF TypeOf(value) \in {"string", "number"} THEN NewDate(value)
              ELSE Undefined
  IN
  IF date = Undefined
  THEN failureOf(formatError(self, "Must be a valid date", path))
  ELSE IF date.t = "invalidDate"
  THEN failureOf(formatError(self, "Must be a valid date", path))
  ELSE Collected(Violations(<<
    <<Truthy(self.minDate) /\ date.ms < self.minDate.ms,
      IF Truthy(self.minDate)
      THEN formatError(self, "Date must be after "
                               \o toISOString(self.minDate.ms), path)
      ELSE "">>,
    <<Truthy(self.maxDate) /\ date.ms > self.maxDate.ms,
      IF Truthy(self.maxDate)
      THEN formatError(self, "Date must be before "
                               \o toISOString(self.maxDate.ms), path)
      ELSE "">> >>), date)

\* a value with the content of the expected one is accepted
LiteralValidator_validate_SameContent(self, val, path) ==
  IF val # self.value
  THEN failureOf(formatError(self, "Must be exactly: "
                                     \o JSONstringify(self.value), path))
  ELSE success(val)

LiteralValidator_validate(self, val, path) ==
  IF ~StrictEquals(val, self.value)
  THEN failureOf(formatError(self, "Must be exactly: "
                                     \o JSONstringify(self.value), path))
  ELSE success(val)

AnyValidator_validate(self, val, path) == success(val)

RECURSIVE validate(_, _, _, _)

\* the accumulators of a composite's loops, with the calls made so far
Acc(errors, value, trace) ==
  [threw |-> FALSE, errors |-> errors, value |-> value, trace |-> trace]

\* the positions of the items whose serialization an earlier item has
Duplicates(items) ==
  LET dup(i) == \E j \in 1..(i - 1) :
                   JSONstringify(items[j]) = JSONstringify(items[i])
      RECURSIVE from(_)
      from(i) == IF i > Len(items) THEN <<>>
                 ELSE (IF dup(i) THEN <<ToString(i - 1)>> ELSE <<>>) \o from(i + 1)
  IN from(1)

\* path ? `${path}[${index}]` : `[${index}]`
itemPathOf(path, index) ==
  IF path # "" THEN path \o "[" \o ToString(index) \o "]"
  ELSE "[" \o ToString(index) \o "]"

RECURSIVE ValidateItems(_, _, _, _, _)
\* the loop ends at the first item that is not valid
ValidateItems_StopAtFailure(self, items, path, index, acc) ==
  IF index >= Len(items) THEN acc
  ELSE
    LET itemResult == validate(self.itemValidator, items[index + 1],
                               itemPathOf(path, index), acc.lastIndex)
        trace == acc.trace \o itemResult.trace
    IN IF itemResult.threw
       THEN At(Throw(itemResult.thrown, trace), itemResult.lastIndex)
       ELSE IF ~itemResult.isValid
       THEN At(Acc(acc.errors \o itemResult.errors, acc.value, trace),
               itemResult.lastIndex)
       ELSE ValidateItems(self, items, path, index + 1,
              At(Acc(acc.errors, Append(acc.value, itemResult.value), trace),
                 itemResult.lastIndex))

\* value.forEach((item, index) => ...), from index (counted from 0) on
ValidateItems(self, items, path, index, acc) ==
  IF index >= Len(items) THEN acc
  ELSE
    LET itemPath == itemPathOf(path, index)
        itemResult == validate(self.itemValidator, items[index + 1], itemPath,
                               acc.lastIndex)
        trace == acc.trace \o itemResult.trace
    IN IF itemResult.threw
       THEN At(Throw(itemResult.thrown, trace), itemResult.lastIndex)
       ELSE IF ~itemResult.isValid
       THEN ValidateItems(self, items, path, index + 1,
              At(Acc(acc.errors \o itemResult.errors, acc.value, trace),
                 itemResult.lastIndex))
       ELSE ValidateItems(self, items, path, index + 1,
              At(Acc(acc.errors, Append(acc.value, itemResult.value), trace),
                 itemResult.lastIndex))

ArrayValidator_validate(self, value, path, heap) ==
  IF value.t # "array"
  THEN At(failureOf(formatError(self, "Must be an array", path)), heap)
  ELSE
    LET duplicates == IF self.uniqueItems THEN Duplicates(value.items) ELSE <<>>
        errors == Violations(<<
          <<self.minItems # Null /\ 2 * Len(value.items) < Twice(self.minItems),
            formatError(self, "Must have at least "
                                \o JSONstringify(self.minItems) \o " items", path)>>,
          <<self.maxItems # Null /\ 2 * Len(value.items) > Twice(self.maxItems),
            formatError(self, "Must have at most "
                                \o JSONstringify(self.maxItems) \o " items", path)>>,
          <<self.uniqueItems /\ Len(duplicates) > 0,
            formatError(self, "Duplicate items found at indices: "
                                \o Join(duplicates, ", "), path)>> >>)
        done == ValidateItems(self, value.items, path, 0,
                              At(Acc(errors, <<>>, <<>>), heap))
    IN IF done.threw THEN done
       ELSE At(WithTrace(Collected(done.errors, Arr(done.value)), done.trace),
               done.lastIndex)

\* the own properties of a value that passes the object type check
Props(value) == IF value.t = "object" THEN value.props ELSE <<>>

\* object[key] = value
SetProp(props, key, value) ==
  IF key \in OwnKeys(props)
  THEN [i \in 1..Len(props) |->
          IF props[i][1] = key THEN <<key, value>> ELSE props[i]]
  ELSE Append(props, <<key, value>>)

\* for (const requiredKey of this.requiredKeys)
MissingRequired(self, value, path) ==
  LET missing == SelectSeq(self.requiredKeys,
                   LAMBDA requiredKey : ~In(requiredKey, Props(value)))
  IN [i \in 1..Len(missing) |->
        formatError(self, "Missing required field: " \o missing[i], path)]

\* the empty path is not told apart
fieldPathOf_AlwaysDotted(path, key) == path \o "." \o key

\* path ? `${path}.${key}` : key
fieldPathOf(path, key) == IF path # "" THEN path \o "." \o key ELSE key

RECURSIVE ValidateFields(_, _, _, _, _)
\* for (const [key, validator] of Object.entries(this.schema)), from the
\* i-th entry on
ValidateFields(self, value, path, i, acc) ==
  IF i > Len(self.schema) THEN acc
  ELSE
    LET key == self.schema[i][1]
        fieldPath == fieldPathOf(path, key)
        fieldResult == validate(self.schema[i][2], Get(value, key), fieldPath,
                                acc.lastIndex)
        trace == acc.trace \o fieldResult.trace
    IN IF fieldResult.threw
       THEN At(Throw(fieldResult.thrown, trace), fieldResult.lastIndex)
       ELSE IF ~fieldResult.isValid
       THEN ValidateFields(self, value, path, i + 1,
              At(Acc(acc.errors \o fieldResult.errors, acc.value, trace),
                 fieldResult.lastIndex))
       ELSE IF fieldResult.value # Undefined
       THEN ValidateFields(self, value, path, i + 1,
              At(Acc(acc.errors, SetProp(acc.value, key, fieldResult.value),
                     trace), fieldResult.lastIndex))
       ELSE ValidateFields(self, value, path, i + 1,
              At(Acc(acc.errors, acc.value, trace), fieldResult.lastIndex))

RECURSIVE UnknownFields(_, _, _, _, _)
\* for (const key of Object.keys(value)), from the i-th key on
UnknownFields(self, value, path, i, acc) ==
  IF i > Len(ObjectKeys(value)) THEN acc
  ELSE
    LET key == ObjectKeys(value)[i] IN
    IF ~In(key, self.schema)
    THEN IF ~self.allowUnknownKeys
         THEN UnknownFields(self, value, path, i + 1,
                At(Acc(Append(acc.errors,
                              formatError(self, "Unknown field: " \o key, path)),
                       acc.value, acc.trace), acc.lastIndex))
         ELSE UnknownFields(self, value, path, i + 1,
                At(Acc(acc.errors, SetProp(acc.value, key, Get(value, key)),
                       acc.trace), acc.lastIndex))
    ELSE UnknownFields(self, value, path, i + 1, acc)

ObjectValidator_validate(self, value, path, heap) ==
  IF TypeOf(value) # "object" \/ value = Null \/ value.t = "array"
  THEN At(failureOf(formatError(self, "Must be an object", path)), heap)
  ELSE
    LET fields == ValidateFields(self, value, path, 1,
                    At(Acc(MissingRequired(self, value, path), <<>>, <<>>), heap))
        done == IF fields.threw THEN fields
                ELSE UnknownFields(self, value, path, 1, fields)
    IN IF done.threw THEN done
       ELSE At(WithTrace(Collected(done.errors, Obj(done.value)), done.trace),
               done.lastIndex)

RECURSIVE TryValidators(_, _, _, _, _)
\* for (const validator of this.validators), from the i-th candidate on
TryValidators(self, value, path, i, acc) ==
  IF i > Len(self.validators)
  THEN At(WithTrace(failure(<<formatError(self,
             "Value does not match any of the expected types", path)>>
             \o acc.errors), acc.trace), acc.lastIndex)
  ELSE
    LET r == validate(self.validators[i], value, path, acc.lastIndex) IN
    IF r.threw THEN At(Throw(r.thrown, acc.trace \o r.trace), r.lastIndex)
    ELSE IF r.isValid THEN WithTrace(r, acc.trace)
    ELSE TryValidators(self, value, path, i + 1,
           At(Acc(acc.errors \o r.errors, acc.value, acc.trace \o r.trace),
              r.lastIndex))

\* the candidates are tried from the last one to the first
UnionValidator_validate_LastFirst(self, value, path, heap) ==
  TryValidators([self EXCEPT !.validators =
                   [i \in 1..Len(@) |-> @[Len(@) + 1 - i]]],
                value, path, 1, At(Acc(<<>>, Null, <<>>), heap))

UnionValidator_validate(self, value, path, heap) ==
  TryValidators(self, value, path, 1, At(Acc(<<>>, Null, <<>>), heap))

\* this._validate(value, path): the method of the validator's class
validateVariant(self, value, path, heap) ==
  CASE self.kind = "string" -> StringValidator_validate(self, value, path, heap)
    [] self.kind = "number" ->
         At(NumberValidator_validate(self, value, path), heap)
    [] self.kind = "boolean" ->
         At(BooleanValidator_validate(self, value, path), heap)
    [] self.kind = "date" -> At(DateValidator_validate(self, value, path), heap)
    [] self.kind = "array" -> ArrayValidator_validate(self, value, path, heap)
    [] self.kind = "object" -> ObjectValidator_validate(self, value, path, heap)
    [] self.kind = "union" -> UnionValidator_validate(self, value, path, heap)
    [] self.kind = "literal" ->
         At(LiteralValidator_validate(self, value, path), heap)
    [] self.kind = "any" -> At(AnyValidator_validate(self, value, path), heap)

\* result.value = this.transformFn(result.value), inside try/catch
applyTransform(self, res, path) ==
  LET called == Apply(self.transformFn, res.value)
      trace == Append(res.trace, Call("transformFn", self, res.value))
  IN IF ~called.threw THEN [res EXCEPT !.value = called.value, !.trace = trace]
     ELSE LET message == ErrorMessage(called.thrown) IN
          IF message.threw THEN At(Throw(message.thrown, trace), res.lastIndex)
          ELSE At(WithTrace(failureOf(formatError(self,
                    "Transformation failed: " \o message.text, path)), trace),
                  res.lastIndex)

\* the validity of the result is not tested
transformApplies_AnyResult(self, res) == Truthy(self.transformFn)

\* if (result.isValid && this.transformFn)
transformApplies(self, res) == res.isValid /\ Truthy(self.transformFn)

\* a union hands null and undefined on to its candidates
validate_UnionAsksCandidates(self, value, path, heap) ==
  LET entered == <<Call("validate", self, value)>> IN
  IF IsNullish(value) /\ self.kind # "union"
  THEN IF self.isOptionalField THEN At(WithTrace(success(value), entered), heap)
       ELSE At(WithTrace(failureOf(formatError(self, "Field is required", path)),
                         entered), heap)
  ELSE
    LET result0 == WithTrace(validateVariant(self, value, path, heap),
                             Append(entered, Call("_validate", self, value)))
    IN IF result0.threw THEN result0
       ELSE IF transformApplies(self, result0)
       THEN applyTransform(self, result0, path)
       ELSE result0

\* BaseValidator.validate(value, path = '')
validate(self, value, path, heap) ==
  LET entered == <<Call("validate", self, value)>> IN
  IF IsNullish(value)
  THEN IF self.isOptionalField THEN At(WithTrace(success(value), entered), heap)
       ELSE At(WithTrace(failureOf(formatError(self, "Field is required", path)),
                         entered), heap)
  ELSE
    LET result0 == WithTrace(validateVariant(self, value, path, heap),
                             Append(entered, Call("_validate", self, value)))
    IN IF result0.threw THEN result0
       ELSE IF transformApplies(self, result0)
       THEN applyTransform(self, result0, path)
       ELSE result0

(***************************************************************************)
(* The Schema factory.                                                      *)
(***************************************************************************)
SchemaString == StringValidator
SchemaNumber == NumberValidator
SchemaBoolean == BooleanValidator
SchemaDate == DateValidator
SchemaObject(schema) == ObjectValidator(schema)
SchemaArray(itemValidator) == ArrayValidator(itemValidator)
SchemaUnion(validators) == UnionValidator(validators)
SchemaLiteral(value) == LiteralValidator(value)
SchemaAny == AnyValidator

(***************************************************************************)
(* The values the calls of the model are made with.                         *)
(***************************************************************************)
hi == Str(<<"h", "i">>)
HI == Str(<<"H", "I">>)
mail == Str(<<"a", "@", "b", ".", "c">>)
site == Str(<<"h", "t", "t", "p", ":", "/", "/", "x">>)

Messages == {"", "Custom message"}
Paths == {"", "data"}
FieldNames == {"user", "email"}
Lengths == {Num(3)}
Limits == {Num(1)}
Patterns == {RegExp("upper"), GlobalRegExp("upper")}
Enums == {Arr(<<hi, mail>>)}
Literals == {hi, Num(1), Obj(<< <<"email", hi>> >>)}
Dates == {Date(5)}

Atoms ==
  {Undefined, Null, Bool(TRUE), Num(1), Num(-1), Half(2), NaN, Infinity,
   NegativeInfinity, hi, HI, mail,
   site, Str(DateStrings[7]), Date(7), InvalidDate}

Inputs ==
  Atoms \cup
  {Arr(<<>>), Arr(<<hi, hi>>), Arr(<<Num(1), Null, HI>>), Arr(<<HI, HI, HI>>),
   Arr(<<Date(7), Str(DateStrings[7])>>),
   Arr(<<Obj(<< <<"user", hi>>, <<"email", mail>> >>),
         Obj(<< <<"email", mail>>, <<"user", hi>> >>)>>),
   Arr(<<Obj(<< <<"email", hi>> >>)>>),
   Obj(<<>>), Obj(<< <<"email", hi>> >>),
   Obj(<< <<"email", mail>>, <<"extra", Num(1)>> >>),
   Obj(<< <<"extra", Num(1)>>, <<"other", Null>>, <<"email", HI>> >>),
   Obj(<< <<"email", mail>>, <<"toString", hi>> >>),
   Obj(<< <<"email", Undefined>>, <<"user", Num(1)>> >>),
   Obj(<< <<"user", hi>>, <<"email", mail>> >>),
   Obj(<< <<"user", Obj(<< <<"email", hi>> >>)>> >>),
   Obj(<< <<"user", Arr(<<hi, Num(-1)>>)>>, <<"email", Arr(<<>>)>> >>)}

\* nested values: every array holds null and then a value one level down
NestAtoms == {Null, hi}

RECURSIVE Nested(_)
Nested(depth) ==
  IF depth = 0 THEN NestAtoms
  ELSE NestAtoms \cup {Arr(<<Null, x>>) : x \in Nested(depth - 1)}
       \cup {Obj(<< <<key, x>> >>) : key \in FieldNames, x \in Nested(depth - 1)}

NestedInputs == Nested(MaxDepth)

(***************************************************************************)
(* The Sea Battle game: Ship, Board, Player, AIPlayer, GameUtils and the    *)
(* controller SeaBattleGame.  A coordinate is a string of two digits, held  *)
(* as the sequence of its characters.                                       *)
(***************************************************************************)
\* new SeaBattleGame({numShips: 1, shipLength: 2})
config == [numShips |-> 1, shipLength |-> 2]

\* parseInt of one character: the digit, or NaN
parseInt(char) ==
  IF \E n \in 0..9 : ToString(n) = char
  THEN Num(CHOOSE n \in 0..9 : ToString(n) = char)
  ELSE NaN

\* `${row}${col}`
formatCoordinate(row, col) == <<ToString(row), ToString(col)>>

\* GameUtils.validateInput(input) for a string
validateInput(typed) ==
  IF Len(typed) # 2 THEN [isValid |-> FALSE]
  ELSE LET row == parseInt(typed[1])
           col == parseInt(typed[2])
       IN IF row = NaN \/ col = NaN THEN [isValid |-> FALSE]
          ELSE IF row.n < 0 \/ row.n > 9 \/ col.n < 0 \/ col.n > 9
          THEN [isValid |-> FALSE]
          ELSE [isValid |-> TRUE, row |-> row.n, col |-> col.n,
                coordinate |-> typed]

\* new Ship(length)
Ship(length) ==
  [length |-> length, locations |-> <<>>, hits |-> [i \in 1..length |-> FALSE],
   orientation |-> Null, startRow |-> Null, startCol |-> Null]

\* ship.place(startRow, startCol, orientation)
place(ship, startRow, startCol, orientation) ==
  [ship EXCEPT
     !.startRow = Num(startRow),
     !.startCol = Num(startCol),
     !.orientation = orientation,
     !.locations =
        [i \in 1..ship.length |->
           formatCoordinate(
             IF orientation = "horizontal" THEN startRow ELSE startRow + (i - 1),
             IF orientation = "horizontal" THEN startCol + (i - 1) ELSE startCol)]]

\* Array.prototype.indexOf, counted from 0
indexOf(items, item) ==
  IF \E i \in 1..Len(items) : items[i] = item
  THEN (CHOOSE i \in 1..Len(items) :
          items[i] = item /\ \A j \in 1..(i - 1) : items[j] # item) - 1
  ELSE -1

\* ship.checkHit(coordinate): the answer and the ship afterwards
checkHit(ship, coordinate) ==
  LET index == indexOf(ship.locations, coordinate) IN
  IF index >= 0 /\ ~ship.hits[index + 1]
  THEN [hit |-> TRUE, ship |-> [ship EXCEPT !.hits[index + 1] = TRUE]]
  ELSE [hit |-> FALSE, ship |-> ship]

\* ship.isSunk()
isSunk(ship) == \A i \in 1..Len(ship.hits) : ship.hits[i] = TRUE

\* new Board(size)
Board(size) ==
  [size |-> size,
   grid |-> [row \in 0..(size - 1) |-> [col \in 0..(size - 1) |-> "~"]],
   ships |-> <<>>,
   guesses |-> {}]

\* board.getAllShipLocations(), as a set
getAllShipLocations(board) ==
  UNION {{board.ships[i].locations[j] : j \in 1..Len(board.ships[i].locations)} :
         i \in 1..Len(board.ships)}

\* board.isShipPosition(row, col, startRow, startCol, length, orientation)
isShipPosition(row, col, startRow, startCol, length, orientation) ==
  IF orientation = "horizontal"
  THEN row = startRow /\ col >= startCol /\ col < startCol + length
  ELSE col = startCol /\ row >= startRow /\ row < startRow + length

\* board.getShipAreaPositions(startRow, startCol, length, orientation)
getShipAreaPositions(startRow, startCol, length, orientation) ==
  LET maxRow == IF orientation = "horizontal" THEN startRow + 1
                ELSE startRow + length
      maxCol == IF orientation = "horizontal" THEN startCol + length
                ELSE startCol + 1
  IN {[row |-> row, col |-> col,
       isShipPosition |->
         isShipPosition(row, col, startRow, startCol, length, orientation)] :
      row \in (startRow - 1)..maxRow, col \in (startCol - 1)..maxCol}

\* board.canPlaceShip(startRow, startCol, length, orientation)
canPlaceShip(board, startRow, startCol, length, orientation) ==
  \A position \in getShipAreaPositions(startRow, startCol, length, orientation) :
     IF \/ position.row < 0 \/ position.row >= board.size
        \/ position.col < 0 \/ position.col >= board.size
     THEN ~position.isShipPosition
     ELSE formatCoordinate(position.row, position.col)
             \notin getAllShipLocations(board)

\* the row and column of a coordinate
rowOf(coordinate) == parseInt(coordinate[1]).n
colOf(coordinate) == parseInt(coordinate[2]).n

\* grid[row][col] = symbol
setGrid(grid, coordinate, symbol) ==
  [grid EXCEPT ![rowOf(coordinate)][colOf(coordinate)] = symbol]

RECURSIVE markLocations(_, _)
\* board.updateGridForShip(ship), for the locations that are left
markLocations(grid, locations) ==
  IF locations = <<>> THEN grid
  ELSE markLocations(setGrid(grid, Head(locations), "S"), Tail(locations))

\* board.placeShipRandomly(shipLength) when Math.random gives this
\* orientation and start and the ship can be placed there
placeShip(board, shipLength, startRow, startCol, orientation) ==
  LET ship == place(Ship(shipLength), startRow, startCol, orientation) IN
  [board EXCEPT !.ships = Append(@, ship),
                !.grid = markLocations(@, ship.locations)]

\* the outcomes of Math.random in placeShipRandomly that are followed: the
\* orientation and the start of a ship
Starts ==
  {[row |-> 0, col |-> 0, orientation |-> "horizontal"],
   [row |-> 1, col |-> 1, orientation |-> "vertical"],
   [row |-> 0, col |-> 1, orientation |-> "vertical"]}

\* those that Math.floor(Math.random() * maxRow) and
\* Math.floor(Math.random() * maxCol) can give
RandomStarts(board, shipLength) ==
  {s \in Starts :
     /\ s.row < (IF s.orientation = "horizontal" THEN board.size
                 ELSE board.size - shipLength + 1)
     /\ s.col < (IF s.orientation = "horizontal"
                 THEN board.size - shipLength + 1 ELSE board.size)}

RECURSIVE findHit(_, _, _)
\* for (const ship of this.ships) if (ship.checkHit(coordinate)): the index of
\* the first ship from i on that is hit, or 0
findHit(ships, coordinate, i) ==
  IF i > Len(ships) THEN 0
  ELSE IF checkHit(ships[i], coordinate).hit THEN i
  ELSE findHit(ships, coordinate, i + 1)

\* board.processGuess(coordinate): the answer and the board afterwards
processGuess(board, coordinate) ==
  IF coordinate \in board.guesses
  THEN [board |-> board,
        answer |-> [alreadyGuessed |-> TRUE, hit |-> FALSE, sunk |-> FALSE]]
  ELSE
    LET guessed == [board EXCEPT !.guesses = @ \cup {coordinate}]
        i == findHit(board.ships, coordinate, 1)
    IN IF i > 0
       THEN LET ship == checkHit(board.ships[i], coordinate).ship IN
            [board |-> [guessed EXCEPT !.ships[i] = ship,
                                       !.grid = setGrid(@, coordinate, "X")],
             answer |-> [alreadyGuessed |-> FALSE, hit |-> TRUE,
                         sunk |-> isSunk(ship)]]
       ELSE [board |-> [guessed EXCEPT !.grid = setGrid(@, coordinate, "O")],
             answer |-> [alreadyGuessed |-> FALSE, hit |-> FALSE,
                         sunk |-> FALSE]]

\* the guesses made so far are not looked at
isValidGuess_BoundsOnly(board, row, col) ==
  ~(row < 0 \/ row >= board.size \/ col < 0 \/ col >= board.size)

\* board.isValidGuess(row, col)
isValidGuess(board, row, col) ==
  IF row < 0 \/ row >= board.size \/ col < 0 \/ col >= board.size THEN FALSE
  ELSE formatCoordinate(row, col) \notin board.guesses

\* board.getAdjacentCoordinates(coordinate)
getAdjacentCoordinates(board, coordinate) ==
  LET row == rowOf(coordinate)
      col == colOf(coordinate)
      adjacent == <<[r |-> row - 1, c |-> col], [r |-> row + 1, c |-> col],
                    [r |-> row, c |-> col - 1], [r |-> row, c |-> col + 1]>>
      valid == SelectSeq(adjacent, LAMBDA pos : isValidGuess(board, pos.r, pos.c))
  IN [i \in 1..Len(valid) |-> formatCoordinate(valid[i].r, valid[i].c)]

\* board.allShipsSunk()
allShipsSunk(board) == \A i \in 1..Len(board.ships) : isSunk(board.ships[i])

\* new Player(name)
Player(name) ==
  [name |-> name, board |-> Board(BoardSize), opponentBoard |-> Board(BoardSize)]

\* new AIPlayer(name)
AIPlayer(name) ==
  Player(name) @@ [mode |-> "hunt", targetQueue |-> <<>>, lastHit |-> Null]

RECURSIVE placeShips(_, _, _)
\* the loop of player.initialize(numShips, shipLength): one ship for each of
\* the starts
placeShips(board, starts, shipLength) ==
  IF Len(starts) = 0 THEN board
  ELSE LET first == Head(starts) IN
       placeShips(placeShip(board, shipLength, first.row, first.col,
                            first.orientation),
                  Tail(starts), shipLength)

RECURSIVE canPlaceShips(_, _, _)
\* every ship of the loop can be placed at its start
canPlaceShips(board, starts, shipLength) ==
  IF Len(starts) = 0 THEN TRUE
  ELSE LET first == Head(starts) IN
       /\ canPlaceShip(board, first.row, first.col, shipLength,
                       first.orientation)
       /\ canPlaceShips(placeShip(board, shipLength, first.row, first.col,
                                  first.orientation),
                        Tail(starts), shipLength)

\* player.initialize(numShips, shipLength)
initialize(p, starts, shipLength) ==
  [p EXCEPT !.board = placeShips(@, starts, shipLength)]

\* player.hasLost()
\* one hit is taken for a lost fleet
hasLost_AnyHit(p) ==
  \E i \in 1..Len(p.board.ships) :
    \E k \in 1..Len(p.board.ships[i].hits) : p.board.ships[i].hits[k]

hasLost(p) == allShipsSunk(p.board)

\* the coordinates that aiPlayer.generateHuntGuess(opponentBoard) can return:
\* a random one that is a valid guess or, after 100 attempts without one,
\* the first valid one; none is left when the set is empty and it throws
generateHuntGuess(opponentBoard) ==
  {formatCoordinate(row, col) :
     <<row, col>> \in {rc \in (0..(opponentBoard.size - 1))
                               \X (0..(opponentBoard.size - 1)) :
                         isValidGuess(opponentBoard, rc[1], rc[2])}}

\* aiPlayer.makeGuess(opponentBoard): the coordinates it can return, each
\* with the AI player afterwards
makeGuess(ai, opponentBoard) ==
  IF ai.mode = "target" /\ Len(ai.targetQueue) > 0
  THEN {[coordinate |-> Head(ai.targetQueue),
         ai |-> [ai EXCEPT !.targetQueue = Tail(@)]]}
  ELSE {[coordinate |-> coordinate, ai |-> [ai EXCEPT !.mode = "hunt"]] :
          coordinate \in generateHuntGuess(opponentBoard)}

\* every adjacent coordinate is pushed, queued or not
pushNew_All(queue, adjacents) == queue \o adjacents

RECURSIVE pushNew(_, _)
\* adjacents.forEach(adj => { if (!queue.includes(adj)) queue.push(adj) })
pushNew(queue, adjacents) ==
  IF adjacents = <<>> THEN queue
  ELSE pushNew(IF \E i \in 1..Len(queue) : queue[i] = Head(adjacents)
               THEN queue ELSE Append(queue, Head(adjacents)),
               Tail(adjacents))

\* aiPlayer.addAdjacentTargets(coordinate, opponentBoard)
addAdjacentTargets(ai, coordinate, opponentBoard) ==
  [ai EXCEPT !.targetQueue =
     pushNew(@, getAdjacentCoordinates(opponentBoard, coordinate))]

\* aiPlayer.processGuessResult(coordinate, result, opponentBoard)
processGuessResult(ai, coordinate, answer, opponentBoard) ==
  IF answer.hit
  THEN IF answer.sunk
       THEN [ai EXCEPT !.mode = "hunt", !.targetQueue = <<>>, !.lastHit = Null]
       ELSE addAdjacentTargets(
              [ai EXCEPT !.lastHit = Str(coordinate), !.mode = "target"],
              coordinate, opponentBoard)
  ELSE IF ai.mode = "target" /\ Len(ai.targetQueue) = 0
       THEN [ai EXCEPT !.mode = "hunt", !.lastHit = Null]
       ELSE ai

\* a reference to the object held in a field of the game
Ref(field) == [t |-> "ref", field |-> field]

\* new SeaBattleGame(config)
SeaBattleGame(cfg) ==
  [config |-> cfg, player |-> Player("Player"), aiPlayer |-> AIPlayer("CPU"),
   gameOver |-> FALSE, winner |-> Null]

\* where the game loop is, with the number of results that the running
\* handlePlayerTurn call has shown and the last of them
Position(pc, shown, answer) == [pc |-> pc, shown |-> shown, result |-> answer]

NoResult == [none |-> TRUE]

\* the lastIndex of the RegExp objects that pattern() is given: they are new
NewRegExps == [regex \in Patterns |-> 0]

(***************************************************************************)
(* The state: the validator being built and then used, the number of calls  *)
(* that built it, the validate call with its result, the result of the      *)
(* same call made once more, the lastIndex of the RegExp objects, and the   *)
(* functions that transform() was given for the validator, in call order.   *)
(***************************************************************************)
Init ==
  /\ validator \in {SchemaString, SchemaNumber, SchemaBoolean, SchemaDate,
                    SchemaAny} \cup {SchemaLiteral(v) : v \in Literals}
  /\ steps = 0
  /\ input = Undefined
  /\ inPath = ""
  /\ result = NoResult
  /\ again = NoResult
  /\ lastIndex = NewRegExps
  /\ registered = <<>>
  /\ game = SeaBattleGame(config)
  /\ loop = Position("start", 0, NoResult)
  /\ stack = <<>>
  /\ enigma = Null

\* a call that yields the validator v, for which the functions fns have
\* been given to transform(); a validator is configured before it is used
Chain(v, fns) ==
  /\ result = NoResult
  /\ validator' = v
  /\ steps' = steps + 1
  /\ registered' = fns
  /\ UNCHANGED <<input, inPath, result, again, lastIndex, game, loop, stack, enigma>>

\* a configuration call that returns this, changed to v
Build(v) == Chain(v, registered)

optional == Build([validator EXCEPT !.isOptionalField = TRUE])

withMessage(self, message) == [self EXCEPT !.customMessage = Msg(message)]

WithMessage == \E message \in Messages : Build(withMessage(validator, message))

transform ==
  \E fn \in TransformFns :
     Chain([validator EXCEPT !.transformFn = Fn(fn)], Append(registered, Fn(fn)))

minLength ==
  /\ validator.kind = "string"
  /\ \E min \in Lengths : Build([validator EXCEPT !.minLen = min])

maxLength ==
  /\ validator.kind = "string"
  /\ \E max \in Lengths : Build([validator EXCEPT !.maxLen = max])

pattern ==
  /\ validator.kind = "string"
  /\ \E regex \in Patterns : Build([validator EXCEPT !.patternRegex = regex])

enum ==
  /\ validator.kind = "string"
  /\ \E values \in Enums : Build([validator EXCEPT !.enumValues = values])

email ==
  /\ validator.kind = "string"
  /\ Build(withMessage([validator EXCEPT !.patternRegex = RegExp("email")],
                       "Must be a valid email address"))

url ==
  /\ validator.kind = "string"
  /\ Build(withMessage([validator EXCEPT !.patternRegex = RegExp("url")],
                       "Must be a valid URL"))

NumberMin ==
  /\ validator.kind = "number"
  /\ \E min \in Limits : Build([validator EXCEPT !.minVal = min])

NumberMax ==
  /\ validator.kind = "number"
  /\ \E max \in Limits : Build([validator EXCEPT !.maxVal = max])

integer ==
  /\ validator.kind = "number"
  /\ Build([validator EXCEPT !.isIntegerOnly = TRUE])

positive ==
  /\ validator.kind = "number"
  /\ Build([validator EXCEPT !.isPositiveOnly = TRUE])

DateMin ==
  /\ validator.kind = "date"
  /\ \E date \in Dates : Build([validator EXCEPT !.minDate = date])

DateMax ==
  /\ validator.kind = "date"
  /\ \E date \in Dates : Build([validator EXCEPT !.maxDate = date])

ArrayMin ==
  /\ validator.kind = "array"
  /\ \E min \in Limits : Build([validator EXCEPT !.minItems = min])

ArrayMax ==
  /\ validator.kind = "array"
  /\ \E max \in Limits : Build([validator EXCEPT !.maxItems = max])

unique ==
  /\ validator.kind = "array"
  /\ Build([validator EXCEPT !.uniqueItems = TRUE])

strict ==
  /\ validator.kind = "object"
  /\ Build([validator EXCEPT !.allowUnknownKeys = FALSE])

passthrough ==
  /\ validator.kind = "object"
  /\ Build([validator EXCEPT !.allowUnknownKeys = TRUE])

\* required(keys) with one name or a list of names: each is added to the Set
required ==
  /\ validator.kind = "object"
  /\ \E key \in FieldNames :
       Build([validator EXCEPT !.requiredKeys =
                IF \E i \in 1..Len(@) : @[i] = key THEN @ ELSE Append(@, key)])

\* Schema.array(validator)
NewArray == Chain(SchemaArray(validator), <<>>)

\* Schema.object({key: validator}), or with a second field: string()
NewObject ==
  \/ \E key \in FieldNames :
        Chain(SchemaObject(<< <<key, validator>> >>), <<>>)
  \/ Chain(SchemaObject(<< <<"user", validator>>, <<"email", SchemaString>> >>),
           <<>>)

\* Schema.union(validator, Schema.number()), Schema.union(boolean(), validator)
NewUnion ==
  \/ Chain(SchemaUnion(<<validator, SchemaNumber>>), <<>>)
  \/ Chain(SchemaUnion(<<SchemaBoolean, validator>>), <<>>)

\* result = validator.validate(value, path)
Call_validate(value, path) ==
  /\ result = NoResult
  /\ input' = value
  /\ inPath' = path
  /\ result' = validate(validator, value, path, lastIndex)
  /\ lastIndex' = result'.lastIndex
  /\ UNCHANGED <<validator, steps, again, registered, game, loop, stack, enigma>>

Validate == \E value \in Inputs, path \in Paths : Call_validate(value, path)

\* validator.validate(value, path) once more, with the same arguments
Revalidate ==
  /\ result # NoResult
  /\ again = NoResult
  /\ again' = validate(validator, input, inPath, lastIndex)
  /\ lastIndex' = again'.lastIndex
  /\ UNCHANGED <<validator, steps, input, inPath, result, registered, game, loop, stack, enigma>>

Next ==
  \/ /\ steps < MaxSteps
     /\ \/ optional \/ WithMessage \/ transform
        \/ minLength \/ maxLength \/ pattern \/ enum \/ email \/ url
        \/ NumberMin \/ NumberMax \/ integer \/ positive
        \/ DateMin \/ DateMax
        \/ ArrayMin \/ ArrayMax \/ unique
        \/ strict \/ passthrough \/ required
        \/ NewArray \/ NewObject \/ NewUnion
  \/ Validate

Spec == Init /\ [][Next]_vars

\* a validator is built, used, and used once more in the same way
RepeatNext == Next \/ Revalidate

RepeatSpec == Init /\ [][RepeatNext]_vars

(***************************************************************************)
(* Nested validators: a string or number validator, configured by at most   *)
(* one call, inside arrays, objects and unions, run on nested values.       *)
(***************************************************************************)
NestInit ==
  /\ validator \in {SchemaString, SchemaNumber}
  /\ steps = 0
  /\ input = Undefined
  /\ inPath = ""
  /\ result = NoResult
  /\ again = NoResult
  /\ lastIndex = NewRegExps
  /\ registered = <<>>
  /\ game = SeaBattleGame(config)
  /\ loop = Position("start", 0, NoResult)
  /\ stack = <<>>
  /\ enigma = Null

NestValidate ==
  \E value \in NestedInputs, path \in Paths : Call_validate(value, path)

\* Schema.object({key: validator})
NestObject ==
  \E key \in FieldNames : Chain(SchemaObject(<< <<key, validator>> >>), <<>>)

\* Schema.union(validator, Schema.number())
NestUnion == Chain(SchemaUnion(<<validator, SchemaNumber>>), <<>>)

NestNext ==
  \/ /\ steps = 0
     /\ MaxDepth > 0
     /\ optional \/ email
  \/ /\ steps < MaxDepth
     /\ NewArray \/ NestObject \/ NestUnion
  \/ NestValidate

NestSpec == NestInit /\ [][NestNext]_vars

(***************************************************************************)
(* The Sea Battle game: start() places the ships and runs gameLoop, which   *)
(* alternates handlePlayerTurn and handleCPUTurn until the game is over.    *)
(***************************************************************************)
GameInit ==
  /\ validator = SchemaString
  /\ steps = 0
  /\ input = Undefined
  /\ inPath = ""
  /\ result = NoResult
  /\ again = NoResult
  /\ lastIndex = NewRegExps
  /\ registered = <<>>
  /\ game = SeaBattleGame(config)
  /\ loop = Position("start", 0, NoResult)
  /\ stack = <<>>
  /\ enigma = Null

\* what the player can type at the prompt, trimmed
Typed ==
  {<<"0", "0">>, <<"0", "1">>, <<"1", "1">>, <<"2", "1">>, <<"2", "2">>,
   <<"0">>, <<"0", "x">>}

\* game.start() up to the first prompt: initializePlayers() with the ships
\* where Math.random puts them, then gameLoop() enters handlePlayerTurn()
start ==
  /\ loop.pc = "start"
  /\ \E own \in [1..game.config.numShips ->
                   RandomStarts(game.player.board, game.config.shipLength)],
        theirs \in [1..game.config.numShips ->
                      RandomStarts(game.aiPlayer.board, game.config.shipLength)] :
       /\ canPlaceShips(game.player.board, own, game.config.shipLength)
       /\ canPlaceShips(game.aiPlayer.board, theirs, game.config.shipLength)
       /\ game' = [game EXCEPT
                     !.player = initialize(@, own, game.config.shipLength),
                     !.aiPlayer = initialize(@, theirs, game.config.shipLength)]
  /\ loop' = Position("playerTurn", 0, NoResult)
  /\ UNCHANGED <<schemaVars, idleVars>>

\* one pass of the loop of game.handlePlayerTurn() with the line typed at
\* its prompt, and, when the call returns, gameLoop up to the next call
handlePlayerTurn(typed) ==
  /\ loop.pc = "playerTurn"
  /\ LET validation == validateInput(typed) IN
     IF ~validation.isValid
     THEN UNCHANGED gameVars
     ELSE IF validation.coordinate \in game.player.opponentBoard.guesses
     THEN UNCHANGED gameVars
     ELSE
       LET received == processGuess(game.aiPlayer.board, validation.coordinate)
           tracked == processGuess(game.player.opponentBoard,
                                   validation.coordinate)
           ai == [game.aiPlayer EXCEPT !.board = received.board]
           over == hasLost(ai)
       IN /\ Cardinality(game.player.opponentBoard.guesses) < MaxTurns
          /\ game' = [game EXCEPT
                        !.aiPlayer = ai,
                        !.player.opponentBoard = tracked.board,
                        !.gameOver = IF over THEN TRUE ELSE @,
                        !.winner = IF over THEN Ref("player") ELSE @]
          /\ loop' = Position(IF over THEN "ended" ELSE "cpuTurn",
                              loop.shown + 1, received.answer)
  /\ UNCHANGED <<schemaVars, idleVars>>

PlayerTurn == \E typed \in Typed : handlePlayerTurn(typed)

\* game.handleCPUTurn(), and gameLoop up to the next handlePlayerTurn() call
handleCPUTurn ==
  /\ loop.pc = "cpuTurn"
  /\ LET guesses == makeGuess(game.aiPlayer, game.player.board) IN
     IF guesses = {}
     THEN /\ loop' = Position("ended", 0, NoResult)
          /\ UNCHANGED game
     ELSE
       \E guess \in guesses :
         LET received == processGuess(game.player.board, guess.coordinate)
             p == [game.player EXCEPT !.board = received.board]
             ai == processGuessResult(guess.ai, guess.coordinate,
                                      received.answer, p.board)
             over == hasLost(p)
         IN /\ game' = [game EXCEPT
                          !.player = p,
                          !.aiPlayer = ai,
                          !.gameOver = IF over THEN TRUE ELSE @,
                          !.winner = IF over THEN Ref("aiPlayer") ELSE @]
            /\ loop' = Position(IF over THEN "ended" ELSE "playerTurn",
                                0, NoResult)
  /\ UNCHANGED <<schemaVars, idleVars>>

\* game.reset(), after which the game can be started again
reset ==
  /\ loop.pc = "ended"
  /\ game' = [game EXCEPT !.player = Player("Player"),
                          !.aiPlayer = AIPlayer("CPU"),
                          !.gameOver = FALSE,
                          !.winner = Null]
  /\ loop' = Position("start", 0, NoResult)
  /\ UNCHANGED <<schemaVars, idleVars>>

GameNext == start \/ PlayerTurn \/ handleCPUTurn \/ reset

GameSpec == GameInit /\ [][GameNext]_vars

(***************************************************************************)
(* The AI player on its own: makeGuess and processGuessResult are called    *)
(* on an AI player whose mode, targetQueue and lastHit have been set, with  *)
(* an opponent board that has been guessed on.                              *)
(***************************************************************************)
\* the validation library is not used
NoSchema ==
  /\ validator = SchemaString
  /\ steps = 0
  /\ input = Undefined
  /\ inPath = ""
  /\ result = NoResult
  /\ again = NoResult
  /\ lastIndex = NewRegExps
  /\ registered = <<>>

\* the target queues that an AI player is given
Queues ==
  {<<>>, << <<"0", "1">> >>, << <<"1", "0">>, <<"1", "2">> >>,
   << <<"2", "1">>, <<"0", "1">>, <<"1", "2">> >>}

\* the guesses that have been made on the opponent board
Guessed == {{}, {<<"0", "1">>}, {<<"1", "0">>, <<"2", "2">>}}

\* the coordinates of a board
Coordinates(board) ==
  {formatCoordinate(row, col) :
     row \in 0..(board.size - 1), col \in 0..(board.size - 1)}

\* a call and what it was made with: the AI player before it, the
\* coordinate it returned or was given, and the result it was given
CallOf(name, ai, coordinate, answer) ==
  Position(name, 0, [before |-> ai, coordinate |-> coordinate,
                     answer |-> answer])

AIInit ==
  /\ NoSchema
  /\ \E mode \in {"hunt", "target"}, queue \in Queues,
        lastHit \in {Null, Str(<<"1", "1">>)}, guesses \in Guessed :
       game = [SeaBattleGame(config) EXCEPT
                 !.aiPlayer.mode = mode,
                 !.aiPlayer.targetQueue = queue,
                 !.aiPlayer.lastHit = lastHit,
                 !.player.board.guesses = guesses]
  /\ loop = Position("new", 0, NoResult)
  /\ stack = <<>>
  /\ enigma = Null

\* coordinate = aiPlayer.makeGuess(opponentBoard)
Call_makeGuess ==
  /\ loop.pc = "new"
  /\ \E guess \in makeGuess(game.aiPlayer, game.player.board) :
       /\ game' = [game EXCEPT !.aiPlayer = guess.ai]
       /\ loop' = CallOf("makeGuess", game.aiPlayer, guess.coordinate, NoResult)
  /\ UNCHANGED <<schemaVars, idleVars>>

\* aiPlayer.processGuessResult(coordinate, {hit, sunk}, opponentBoard)
Call_processGuessResult ==
  /\ loop.pc \in {"new", "makeGuess"}
  /\ \E coordinate \in Coordinates(game.player.board),
        hit \in BOOLEAN, sunk \in BOOLEAN :
       LET answer == [hit |-> hit, sunk |-> sunk] IN
       /\ sunk => hit
       /\ game' = [game EXCEPT
                     !.aiPlayer = processGuessResult(@, coordinate, answer,
                                                     game.player.board)]
       /\ loop' = CallOf("processGuessResult", game.aiPlayer, coordinate, answer)
  /\ UNCHANGED <<schemaVars, idleVars>>

AINext == Call_makeGuess \/ Call_processGuessResult

AISpec == AIInit /\ [][AINext]_vars

(***************************************************************************)
(* A ValidationResult on its own: it is created by success or failure and   *)
(* then changed by addError and merge calls.                                *)
(***************************************************************************)
\* the messages and the arrays of messages that the calls are given
ErrorTexts == {"Invalid email format", "Additional validation error"}
ErrorArrays ==
  {<<>>, <<"Invalid email format">>,
   <<"Invalid email format", "Additional validation error">>}

\* the results of success(value), failure(error) and failure(errors)
Created ==
  {success(value) : value \in {Null, hi}}
  \cup {failureOf(error) : error \in ErrorTexts}
  \cup {failure(errors) : errors \in ErrorArrays}

ResultInit ==
  /\ validator = SchemaString
  /\ steps = 0
  /\ input = Undefined
  /\ inPath = ""
  /\ result \in Created
  /\ again = NoResult
  /\ lastIndex = NewRegExps
  /\ registered = <<>>
  /\ game = SeaBattleGame(config)
  /\ loop = Position("start", 0, NoResult)
  /\ stack = <<>>
  /\ enigma = Null

\* result.addError(error)
Call_addError ==
  /\ Len(result.errors) < MaxErrors
  /\ \E error \in ErrorTexts : result' = addError(result, error)
  /\ UNCHANGED <<validator, steps, input, inPath, again, lastIndex, registered,
                 game, loop, stack, enigma>>

\* result.merge(otherResult), with a result that was created and then
\* perhaps given one more error
Call_merge ==
  /\ Len(result.errors) < MaxErrors
  /\ \E other \in Created \cup {addError(r, error) :
                                  r \in Created, error \in ErrorTexts} :
       result' = merge(result, other)
  /\ UNCHANGED <<validator, steps, input, inPath, again, lastIndex, registered,
                 game, loop, stack, enigma>>

ResultNext == Call_addError \/ Call_merge

ResultSpec == ResultInit /\ [][ResultNext]_vars

(***************************************************************************)
(* Properties.                                                              *)
(***************************************************************************)
\* validate has been called, and it returned a result
Called == result # NoResult
Returned == Called /\ ~result.threw

\* the call fn of the validator self was made during the validate call
Made(fn, self) ==
  \E i \in 1..Len(result.trace) :
     result.trace[i].call = fn /\ result.trace[i].self = self

\* " at " + path, or nothing for the empty path
Location(path) == IF path # "" THEN " at " \o path ELSE ""

\* C1: whatever the validator and the value, the result that validate
\* returns is valid exactly when it has no errors
C1_ValidIffNoErrors ==
  Returned => (result.isValid <=> Len(result.errors) = 0)

C1_Witness ==
  /\ Returned
  /\ validator.kind = "union"
  /\ ~result.isValid
  /\ Len(result.errors) > 1

\* C2: an optional validator accepts null and undefined, returns the value
\* it was given and runs neither its own checks nor its transform function
C2_OptionalPassesNullish ==
  (Called /\ validator.isOptionalField /\ input \in {Null, Undefined}) =>
     /\ ~result.threw
     /\ result.isValid
     /\ result.errors = <<>>
     /\ result.value = input
     /\ ~Made("_validate", validator)
     /\ ~Made("transformFn", validator)

C2_Witness ==
  /\ Returned
  /\ validator.isOptionalField
  /\ Truthy(validator.transformFn)
  /\ input = Undefined
  /\ result.value = Undefined

OwnCallsOnly ==
  \A i \in 1..Len(result.trace) : result.trace[i].self = validator

AbsentFields ==
  {i \in 1..Len(validator.schema) :
     /\ ~validator.schema[i][2].isOptionalField
     /\ validator.schema[i][2].customMessage = Null
     /\ IsNullish(Get(input, validator.schema[i][1]))}

DefaultMessages(v, value) ==
  {"Field is required"} \cup
  CASE v.kind = "string" -> {"Must be a string"}
    [] v.kind = "number" -> {"Must be a valid number"}
    [] v.kind = "boolean" -> {"Must be a boolean"}
    [] v.kind = "array" -> {"Must be an array"}
    [] v.kind = "object" ->
         {"Must be an object"} \cup
         {"Unknown field: " \o ObjectKeys(value)[i] :
            i \in 1..Len(ObjectKeys(value))}
    [] v.kind = "union" -> {"Value does not match any of the expected types"}
    [] OTHER -> {}

RECURSIVE ExpectedErrors(_, _, _)
\* the errors that C5 allows when v validates value at path p: the messages
\* of v located at p (its custom message if it has one), and those of the
\* validators below it, where field k extends p to p.k, or to k for the empty
\* p, and index i extends p to p[i], or to [i]
ExpectedErrors(v, value, p) ==
  (IF Truthy(v.customMessage) THEN {v.customMessage.m}
   ELSE {m \o Location(p) : m \in DefaultMessages(v, value)})
  \cup
  (IF v.kind = "array" /\ value.t = "array"
   THEN UNION {ExpectedErrors(v.itemValidator, value.items[i],
                  (IF p = "" THEN "" ELSE p) \o "[" \o ToString(i - 1) \o "]") :
               i \in 1..Len(value.items)}
   ELSE {})
  \cup
  (IF v.kind = "object" /\ value.t = "object"
   THEN UNION {ExpectedErrors(v.schema[i][2], Get(value, v.schema[i][1]),
                  IF p = "" THEN v.schema[i][1]
                  ELSE p \o "." \o v.schema[i][1]) :
               i \in 1..Len(v.schema)}
   ELSE {})
  \cup
  (IF v.kind = "union"
   THEN UNION {ExpectedErrors(v.validators[i], value, p) :
               i \in 1..Len(v.validators)}
   ELSE {})

\* C5: every error of a validator without a custom message ends with the
\* path from the root to the value it is about, composed of .key and [index]
\* at any depth, and an error at the empty root path has no location
C5_ErrorsCarryPath ==
  Returned =>
    \A i \in 1..Len(result.errors) :
       result.errors[i] \in ExpectedErrors(validator, input, inPath)

C5_Witness ==
  /\ Returned
  /\ validator.kind = "object"
  /\ validator.schema[1][2].kind = "array"
  /\ inPath = "data"
  /\ result.errors = <<"Field is required at data.user[0]",
                       "Must be a valid number at data.user[1].email">>

\* a string validator configured by email()
IsEmail(v) == v.kind = "string" /\ v.patternRegex = RegExp("email")

\* C6: a string().email() field nested in object validators, given a string
\* that is not an email, is reported with its dotted path: 'Must be a valid
\* email address at user.email'
C6_EmailErrorHasPath ==
  (/\ Returned
   /\ inPath = ""
   /\ validator.kind = "object"
   /\ Len(validator.schema) = 1
   /\ validator.schema[1][2].kind = "object"
   /\ Len(validator.schema[1][2].schema) = 1
   /\ IsEmail(validator.schema[1][2].schema[1][2])
   /\ input.t = "object"
   /\ Get(input, validator.schema[1][1]).t = "object"
   /\ Get(Get(input, validator.schema[1][1]),
          validator.schema[1][2].schema[1][1]) = hi) =>
     \E i \in 1..Len(result.errors) :
        result.errors[i] = "Must be a valid email address at "
           \o validator.schema[1][1] \o "."
           \o validator.schema[1][2].schema[1][1]

\* the own keys of the input that are not fields of the object validator
Undeclared ==
  {key \in OwnKeys(input.props) :
     \A i \in 1..Len(validator.schema) : validator.schema[i][1] # key}

\* C7: a strict object validator rejects every input that has a key which is
\* not a declared field, with an error 'Unknown field: <key>' for each
C7_StrictRejectsUnknown ==
  (/\ Returned
   /\ validator.kind = "object"
   /\ ~validator.allowUnknownKeys
   /\ validator.customMessage = Null
   /\ input.t = "object"
   /\ Undeclared # {}) =>
     /\ ~result.isValid
     /\ \A key \in Undeclared :
          \E i \in 1..Len(result.errors) :
             result.errors[i] = "Unknown field: " \o key \o Location(inPath)

\* C8: a passthrough object validator reports no undeclared key, and on
\* success its output holds every undeclared key with the input's value,
\* next to declared fields only
C8_PassthroughKeepsUnknown ==
  (/\ Returned
   /\ validator.kind = "object"
   /\ validator.allowUnknownKeys
   /\ validator.transformFn = Null
   /\ input.t = "object") =>
     /\ \A key \in OwnKeys(input.props) :
          \A i \in 1..Len(result.errors) :
             result.errors[i] # "Unknown field: " \o key \o Location(inPath)
     /\ result.isValid =>
          /\ result.value.t = "object"
          /\ \A key \in Undeclared :
               /\ key \in OwnKeys(result.value.props)
               /\ OwnGet(result.value.props, key) = OwnGet(input.props, key)
          /\ \A key \in OwnKeys(result.value.props) :
               \/ key \in Undeclared
               \/ \E i \in 1..Len(validator.schema) :
                     validator.schema[i][1] = key

\* the result of the validator's own _validate on the input
OwnResult == validateVariant(validator, input, inPath, NewRegExps)

\* C9: a transform function that throws after a successful validation, with
\* whatever value, yields a failure with the one error 'Transformation
\* failed: <message>' and the value null, and no exception leaves validate
C9_TransformThrowCaught ==
  (/\ Called
   /\ ~IsNullish(input)
   /\ Truthy(validator.transformFn)
   /\ ~OwnResult.threw
   /\ OwnResult.isValid
   /\ Apply(validator.transformFn, OwnResult.value).threw) =>
     /\ ~result.threw
     /\ ~result.isValid
     /\ Len(result.errors) = 1
     /\ result.value = Null
     /\ LET thrown == Apply(validator.transformFn, OwnResult.value).thrown IN
        (validator.customMessage = Null /\ thrown.t = "error") =>
           result.errors[1] =
              "Transformation failed: " \o thrown.message \o Location(inPath)

\* the validator's own validation of the input fails
OwnChecksFail ==
  \/ IsNullish(input) /\ ~validator.isOptionalField
  \/ ~IsNullish(input) /\ ~OwnResult.threw /\ ~OwnResult.isValid

\* C10: when the validator's own validation fails its transform function is
\* not called, and the result is invalid with the value null
C10_NoTransformAfterFailure ==
  (Called /\ OwnChecksFail) =>
     /\ ~result.threw
     /\ ~result.isValid
     /\ result.value = Null
     /\ ~Made("transformFn", validator)

C10_Witness ==
  /\ Returned
  /\ validator.kind = "string"
  /\ validator.minLen = Num(3)
  /\ validator.transformFn = Fn("box")
  /\ input = hi
  /\ ~result.isValid
  /\ result.value = Null

RECURSIVE Flatten(_)
\* the sequences of a sequence of sequences, one after the other
Flatten(seqs) ==
  IF seqs = <<>> THEN <<>> ELSE Head(seqs) \o Flatten(Tail(seqs))

\* seq starts with the sequence prefix
StartsWith(seq, prefix) ==
  Len(seq) >= Len(prefix) /\ SubSeq(seq, 1, Len(prefix)) = prefix

\* the calls that enter the validator's validate and its _validate
OwnCalls ==
  <<Call("validate", validator, input), Call("_validate", validator, input)>>

RECURSIVE Candidate(_)
\* what the i-th candidate of a union validator makes of the input when the
\* candidates are called one after the other from the first
Candidate(i) ==
  validate(validator.validators[i], input, inPath,
           IF i = 1 THEN NewRegExps ELSE Candidate(i - 1).lastIndex)

\* the candidates before the k-th one return results that are not valid
Rejected(k) ==
  \A j \in 1..(k - 1) : ~Candidate(j).threw /\ ~Candidate(j).isValid

\* C11: a union validator calls its candidates in declared order; the first
\* candidate whose result is valid ends the call, later candidates are not
\* called and the errors of earlier ones are dropped; when every candidate
\* returns an invalid result the union fails with 'Value does not match any
\* of the expected types' and its location (or its custom message), followed
\* by the errors of the candidates in candidate order
C11_UnionFirstValid ==
  (Called /\ validator.kind = "union" /\ ~IsNullish(input)) =>
     \A k \in 1..Len(validator.validators) :
        (Rejected(k) /\ ~Candidate(k).threw) =>
           LET calls == OwnCalls \o
                        Flatten([j \in 1..k |-> Candidate(j).trace])
           IN
           /\ Candidate(k).isValid =>
                 /\ StartsWith(result.trace, calls)
                 /\ validator.transformFn = Null =>
                       /\ ~result.threw
                       /\ result.isValid
                       /\ result.errors = <<>>
                       /\ result.value = Candidate(k).value
                       /\ result.trace = calls
           /\ (~Candidate(k).isValid /\ k = Len(validator.validators)) =>
                 /\ ~result.threw
                 /\ ~result.isValid
                 /\ result.value = Null
                 /\ result.trace = calls
                 /\ result.errors =
                      <<IF Truthy(validator.customMessage)
                        THEN validator.customMessage.m
                        ELSE "Value does not match any of the expected types"
                                \o Location(inPath)>>
                      \o Flatten([j \in 1..k |-> Candidate(j).errors])

C11_Witness ==
  /\ Returned
  /\ validator = SchemaUnion(<<SchemaString, SchemaNumber>>)
  /\ input = Num(1)
  /\ inPath = "data"
  /\ result.isValid
  /\ result.errors = <<>>
  /\ Len(Candidate(1).errors) = 1
  /\ result.value = Num(1)

RECURSIVE StructurallyEqual(_, _)
\* a and b are values of the same shape: equal primitives and dates, arrays
\* of structurally equal items, objects of the same keys with structurally
\* equal values, whatever the order of their keys
StructurallyEqual(a, b) ==
  IF a.t # b.t THEN FALSE
  ELSE IF a.t = "array"
  THEN /\ Len(a.items) = Len(b.items)
       /\ \A i \in 1..Len(a.items) : StructurallyEqual(a.items[i], b.items[i])
  ELSE IF a.t = "object"
  THEN /\ OwnKeys(a.props) = OwnKeys(b.props)
       /\ \A key \in OwnKeys(a.props) :
             StructurallyEqual(OwnGet(a.props, key), OwnGet(b.props, key))
  ELSE a = b

RECURSIVE Ascending(_)
\* the numbers of a set as indices in ascending order, each as its text
Ascending(S) ==
  IF S = {} THEN <<>>
  ELSE LET least == CHOOSE n \in S : \A m \in S : n <= m IN
       <<ToString(least)>> \o Ascending(S \ {least})

\* the indices (from 0) of the items that equal an earlier item
Repeated(items) ==
  {i - 1 : i \in {i \in 1..Len(items) :
                    \E j \in 1..(i - 1) : StructurallyEqual(items[j], items[i])}}

DuplicatesMessage(S, path) ==
  "Duplicate items found at indices: " \o Join(Ascending(S), ", ")
     \o Location(path)

\* the errors of the result that report duplicates of the input array
Reports ==
  {i \in 1..Len(result.errors) :
     \E S \in SUBSET (0..(Len(input.items) - 1)) :
        S # {} /\ result.errors[i] = DuplicatesMessage(S, inPath)}

\* C12: an array validator with unique() and no custom message fails on an
\* array in which an item is structurally equal to an earlier item, with
\* exactly one 'Duplicate items found at indices: ...' error that lists the
\* index of every such item in ascending order, and it gives no such error
\* for an array of pairwise distinct items
C12_UniqueReportsDuplicates ==
  (/\ Returned
   /\ validator.kind = "array"
   /\ validator.uniqueItems
   /\ validator.customMessage = Null
   /\ input.t = "array") =>
     IF Repeated(input.items) # {}
     THEN /\ ~result.isValid
          /\ Cardinality(Reports) = 1
          /\ \A i \in Reports :
                result.errors[i] =
                   DuplicatesMessage(Repeated(input.items), inPath)
     ELSE Reports = {}

RECURSIVE Item(_)
\* what the item validator of an array validator makes of the i-th item of
\* the input when the items are validated one after the other from the first
Item(i) ==
  validate(validator.itemValidator, input.items[i],
           inPath \o "[" \o ToString(i - 1) \o "]",
           IF i = 1 THEN NewRegExps ELSE Item(i - 1).lastIndex)

\* the errors of the items of the input, in the order of the items
ItemErrors == Flatten([i \in 1..Len(input.items) |-> Item(i).errors])

\* the messages of an array validator's own checks of length and uniqueness
ArrayMessages ==
  IF Truthy(validator.customMessage) THEN {validator.customMessage.m}
  ELSE {"Must have at least " \o NumberText(n) \o " items" \o Location(inPath) :
          n \in {validator.minItems} \ {Null}}
       \cup
       {"Must have at most " \o NumberText(n) \o " items" \o Location(inPath) :
          n \in {validator.maxItems} \ {Null}}
       \cup
       {DuplicatesMessage(S, inPath) :
          S \in SUBSET (0..(Len(input.items) - 1)) \ {{}}}

\* C13: an array validator validates every item of the input in index order,
\* whatever failed before: the errors of the result are the array's own
\* errors of length and uniqueness followed by the errors of every invalid
\* item in ascending index order
C13_EveryItemValidated ==
  (/\ Called
   /\ validator.kind = "array"
   /\ input.t = "array"
   /\ \A i \in 1..Len(input.items) : ~Item(i).threw) =>
     /\ StartsWith(result.trace,
          OwnCalls \o Flatten([i \in 1..Len(input.items) |-> Item(i).trace]))
     /\ ItemErrors # <<>> => ~result.threw
     /\ ~result.threw =>
          LET own == Len(result.errors) - Len(ItemErrors) IN
          \/ /\ result.isValid
             /\ ItemErrors = <<>>
          \/ /\ ~result.isValid
             /\ own >= 0
             /\ own <= 3
             /\ \A i \in 1..own : result.errors[i] \in ArrayMessages
             /\ SubSeq(result.errors, own + 1, Len(result.errors)) = ItemErrors
          \/ /\ ~result.isValid
             /\ ItemErrors = <<>>
             /\ Made("transformFn", validator)

C13_Witness ==
  /\ Returned
  /\ validator.kind = "array"
  /\ validator.maxItems = Num(1)
  /\ input = Arr(<<Num(1), Null, HI>>)
  /\ inPath = ""
  /\ result.errors = <<"Must have at most 1 items", "Must be a string at [0]",
                       "Field is required at [1]">>

\* the i-th declared field of an object validator, validated on its own
Field(i) ==
  validate(validator.schema[i][2], Get(input, validator.schema[i][1]),
           (IF inPath # "" THEN inPath \o "." ELSE "") \o validator.schema[i][1],
           NewRegExps)

\* the required keys that the input object lacks
Lacking ==
  {i \in 1..Len(validator.requiredKeys) :
     validator.requiredKeys[i] \notin OwnKeys(input.props)}

\* C14: an object validator without custom message, given an object that
\* lacks exactly one of its required keys, has only declared keys, and whose
\* declared fields other than the lacking one are valid, fails with exactly
\* one error: 'Missing required field: <key>'
C14_OneErrorPerMissingField ==
  (/\ Returned
   /\ validator.kind = "object"
   /\ validator.customMessage = Null
   /\ input.t = "object"
   /\ Cardinality(Lacking) = 1
   /\ Undeclared = {}
   /\ \A i \in 1..Len(validator.schema) :
         \/ \E k \in Lacking : validator.requiredKeys[k] = validator.schema[i][1]
         \/ ~Field(i).threw /\ Field(i).isValid) =>
     /\ ~result.isValid
     /\ \A k \in Lacking :
          result.errors = <<"Missing required field: "
                              \o validator.requiredKeys[k] \o Location(inPath)>>

\* the one message m when the constraint is violated
When(violated, m) == IF violated THEN <<m>> ELSE <<>>

\* the error of the validator for the default message m: its custom message,
\* or m with the location
OwnError(m) ==
  IF Truthy(validator.customMessage) THEN validator.customMessage.m
  ELSE m \o Location(inPath)

\* the errors of the constraints that a string validator's input violates
StringErrors ==
  When(validator.minLen # Null /\ 2 * Len(input.s) < Twice(validator.minLen),
       OwnError("Must be at least " \o NumberText(validator.minLen)
                  \o " characters long"))
  \o
  When(validator.maxLen # Null /\ 2 * Len(input.s) > Twice(validator.maxLen),
       OwnError("Must be at most " \o NumberText(validator.maxLen)
                  \o " characters long"))
  \o
  When(validator.patternRegex # Null /\ ~Matches(validator.patternRegex, input.s),
       OwnError("Does not match required pattern"))
  \o
  When(validator.enumValues # Null
         /\ \A i \in 1..Len(validator.enumValues.items) :
               validator.enumValues.items[i] # input,
       OwnError("Must be one of: " \o
                Join([i \in 1..Len(validator.enumValues.items) |->
                        Text(validator.enumValues.items[i].s)], ", ")))

\* the errors of the constraints that a number validator's input violates
NumberErrors ==
  When(validator.minVal # Null /\ Twice(input) < Twice(validator.minVal),
       OwnError("Must be at least " \o NumberText(validator.minVal)))
  \o
  When(validator.maxVal # Null /\ Twice(input) > Twice(validator.maxVal),
       OwnError("Must be at most " \o NumberText(validator.maxVal)))
  \o
  When(validator.isIntegerOnly /\ input.half, OwnError("Must be an integer"))
  \o
  When(validator.isPositiveOnly /\ Twice(input) <= 0,
       OwnError("Must be positive"))

\* the errors of the constraints that the input violates
ConstraintErrors ==
  IF validator.kind = "string" THEN StringErrors ELSE NumberErrors

\* C15: a string validator given a string, and a number validator given a
\* number, report every violated constraint: the errors are one message per
\* violated constraint, in the order min length, max length, pattern, enum
\* for strings and min, max, integer, positive for numbers
C15_AllViolationsReported ==
  (/\ Called
   /\ \/ validator.kind = "string" /\ input.t = "string"
      \/ validator.kind = "number" /\ input.t = "number") =>
     /\ ConstraintErrors # <<>> =>
          /\ ~result.threw
          /\ ~result.isValid
          /\ result.errors = ConstraintErrors
     /\ (ConstraintErrors = <<>> /\ validator.transformFn = Null) =>
          /\ ~result.threw
          /\ result.isValid
          /\ result.errors = <<>>

C15_Witness ==
  /\ Returned
  /\ validator.kind = "string"
  /\ validator.minLen = Num(3)
  /\ validator.patternRegex = RegExp("upper")
  /\ input = hi
  /\ inPath = "data"
  /\ result.errors = <<"Must be at least 3 characters long at data",
                       "Does not match required pattern at data">>

\* two validate calls end the same way: with results of the same isValid,
\* errors and value, or with the same exception
SameOutcome(r1, r2) ==
  /\ r1.threw = r2.threw
  /\ r1.threw => r1.thrown = r2.thrown
  /\ ~r1.threw =>
       /\ r1.isValid = r2.isValid
       /\ r1.errors = r2.errors
       /\ r1.value = r2.value

\* validate has been called a second time with the same arguments
CalledAgain == again # NoResult

\* C16: a second validate call with the same input on the same validator,
\* with no configuration call in between, gives the same isValid, errors and
\* value as the first, whatever the configuration and the pattern
C16_ValidateIdempotent == CalledAgain => SameOutcome(result, again)

\* C17: a validate call changes nothing that is reachable from the
\* validator, neither a configuration field nor the state of the RegExp
\* object it holds, and the outcome of a call on a validator that was used
\* before is the outcome of the call on a validator that was never used
C17_ValidateLeavesValidatorUnchanged ==
  [][/\ (result' # result \/ again' # again) =>
          (validator' = validator /\ lastIndex' = lastIndex)
     /\ again' # again =>
          SameOutcome(again', validate(validator, input, inPath, NewRegExps))]_vars

RECURSIVE ApplyAll(_, _)
\* the functions fns applied one after the other, the first one to value
ApplyAll(fns, value) ==
  IF fns = <<>> THEN [threw |-> FALSE, value |-> value]
  ELSE LET first == Apply(Head(fns), value) IN
       IF first.threw THEN first ELSE ApplyAll(Tail(fns), first.value)

\* C18: after several transform() calls on a validator, validate applies
\* every function that was registered to a valid value, in the order of the
\* calls
C18_TransformsCompose ==
  (/\ Called
   /\ ~IsNullish(input)
   /\ registered # <<>>
   /\ ~OwnResult.threw
   /\ OwnResult.isValid
   /\ ~ApplyAll(registered, OwnResult.value).threw) =>
     /\ ~result.threw
     /\ result.isValid
     /\ result.value = ApplyAll(registered, OwnResult.value).value

\* C19: Schema.any() without optional() accepts every value, null and
\* undefined included, and returns it unchanged
C19_AnyAcceptsEverything ==
  (/\ Called
   /\ validator.kind = "any"
   /\ ~validator.isOptionalField
   /\ validator.transformFn = Null) =>
     /\ ~result.threw
     /\ result.isValid
     /\ result.errors = <<>>
     /\ result.value = input

(***************************************************************************)
(* The Sea Battle game loop.                                                *)
(***************************************************************************)
\* handlePlayerTurn has returned and gameLoop goes on to the CPU's turn
TurnEnded == loop.pc = "cpuTurn"

\* C20: within one handlePlayerTurn call the player keeps guessing after a
\* guess that hits and the call returns only after a guess that misses: the
\* last result shown before the CPU's turn is a miss.
C20_TurnEndsOnMiss == TurnEnded => ~loop.result.hit

(***************************************************************************)
(* The AI player's strategy.                                                *)
(***************************************************************************)
\* the orthogonal neighbours of the coordinate that are on the board and
\* have not been guessed
Neighbours(board, coordinate) ==
  {formatCoordinate(pos[1], pos[2]) :
     pos \in {p \in {<<rowOf(coordinate) - 1, colOf(coordinate)>>,
                     <<rowOf(coordinate) + 1, colOf(coordinate)>>,
                     <<rowOf(coordinate), colOf(coordinate) - 1>>,
                     <<rowOf(coordinate), colOf(coordinate) + 1>>} :
                /\ p[1] \in 0..(board.size - 1)
                /\ p[2] \in 0..(board.size - 1)}}
  \ board.guesses

\* the elements of a sequence
Elements(seq) == {seq[i] : i \in 1..Len(seq)}

\* the AI player is in target mode with targets left
Targeting(ai) == ai.mode = "target" /\ Len(ai.targetQueue) > 0

\* C21: makeGuess in target mode with targets left returns and removes the
\* head of targetQueue and otherwise switches to hunt mode; processGuessResult,
\* on a hit that does not sink, sets mode 'target' and lastHit and appends
\* every neighbour on the board that is not guessed and not queued, each
\* once; on a hit that sinks it sets mode 'hunt', empties targetQueue and
\* clears lastHit; on a miss in target mode it stays in target mode while
\* targets are left and returns to hunt mode, with lastHit null, when none is
C21_HuntTargetTransitions ==
  LET before == loop.result.before
      coordinate == loop.result.coordinate
      answer == loop.result.answer
      after == game.aiPlayer
      board == game.player.board
  IN
  /\ loop.pc = "makeGuess" =>
       IF Targeting(before)
       THEN /\ coordinate = Head(before.targetQueue)
            /\ after.targetQueue = Tail(before.targetQueue)
            /\ after.mode = "target"
       ELSE /\ after.mode = "hunt"
            /\ after.targetQueue = before.targetQueue
            /\ coordinate \in Coordinates(board) \ board.guesses
  /\ loop.pc = "processGuessResult" =>
       IF answer.hit /\ ~answer.sunk
       THEN /\ after.mode = "target"
            /\ after.lastHit = Str(coordinate)
            /\ StartsWith(after.targetQueue, before.targetQueue)
            /\ Elements(after.targetQueue) =
                 Elements(before.targetQueue) \cup Neighbours(board, coordinate)
            /\ Len(after.targetQueue) =
                 Len(before.targetQueue)
                 + Cardinality(Neighbours(board, coordinate)
                               \ Elements(before.targetQueue))
       ELSE IF answer.hit
       THEN /\ after.mode = "hunt"
            /\ after.targetQueue = <<>>
            /\ after.lastHit = Null
       ELSE IF Targeting(before)
       THEN /\ after.mode = "target"
            /\ after.targetQueue = before.targetQueue
            /\ after.lastHit = before.lastHit
       ELSE IF before.mode = "target"
       THEN /\ after.mode = "hunt"
            /\ after.lastHit = Null
            /\ after.targetQueue = <<>>
       ELSE after = before

\* a hit that does not sink, next to a guessed coordinate and to a queued
\* one, has been processed in target mode
C21_Witness ==
  /\ loop.pc = "processGuessResult"
  /\ loop.result.answer = [hit |-> TRUE, sunk |-> FALSE]
  /\ loop.result.coordinate = <<"1", "1">>
  /\ loop.result.before.targetQueue = << <<"1", "0">>, <<"1", "2">> >>
  /\ game.player.board.guesses = {<<"0", "1">>}
  /\ game.aiPlayer.targetQueue = << <<"1", "0">>, <<"1", "2">>, <<"2", "1">> >>

(***************************************************************************)
(* Number, literal and union validators.                                    *)
(***************************************************************************)
\* the value is a number other than NaN, Infinity and -Infinity
IsFinite(v) == v.t = "number"

\* C22: a number validator given a value that is not a finite number (not a
\* number, NaN, Infinity or -Infinity) fails with the one error 'Must be a
\* valid number' and none of the errors of min, max, integer and positive;
\* stated for the values that reach _validate, which null and undefined do not
C22_NonFiniteNumberFailsFast ==
  (Called /\ validator.kind = "number" /\ ~IsFinite(input) /\ ~IsNullish(input)) =>
     /\ ~result.threw
     /\ ~result.isValid
     /\ result.errors = <<OwnError("Must be a valid number")>>

\* the literal validator's input is strictly equal to the expected value: the
\* same primitive value; an object or array given to validate is another
\* object than the expected one
SameValue ==
  /\ input.t \in {"boolean", "number", "Infinity", "string"}
  /\ input = validator.value

\* a literal validator that is called with a value that reaches _validate
\* and has no transform function
LiteralCalled ==
  /\ Called
  /\ validator.kind = "literal"
  /\ ~IsNullish(input)
  /\ validator.transformFn = Null

\* the result is a success with the input, or a failure with the one error
\* 'Must be exactly: <expected serialized>'
LiteralOutcome(accepted) ==
  /\ ~result.threw
  /\ IF accepted
     THEN /\ result.isValid
          /\ result.errors = <<>>
          /\ result.value = input
     ELSE /\ ~result.isValid
          /\ result.errors =
               <<OwnError("Must be exactly: " \o JSONstringify(validator.value))>>

C24_ResultValidIffNoErrors ==
  result.isValid <=> (Len(result.errors) = 0)

(***************************************************************************)
(* A cyclic schema: const node = Schema.object({ value: Schema.string() }); *)
(* node.schema.next = node.  The entry Self stands for node itself, and in  *)
(* a value Cyclic stands for a reference back to the value validate was     *)
(* called with.  validate is taken one call at a time: stack holds one      *)
(* frame for every ObjectValidator._validate call that is in progress, the  *)
(* innermost last, with the position i of its loop over the schema.         *)
(***************************************************************************)
Self == [kind |-> "self"]
Cyclic == [t |-> "cyclic"]

node == ObjectValidator(<< <<"value", SchemaString>>, <<"next", Self>> >>)

Linked(value, next) == Obj(<< <<"value", value>>, <<"next", next>> >>)

CycleInputs ==
  {Undefined, Null, hi, Arr(<<>>), Obj(<<>>), Obj(<< <<"next", Obj(<<>>)>> >>),
   Linked(hi, Undefined), Linked(hi, Null), Linked(Num(1), hi),
   Linked(hi, Linked(hi, Null)), Linked(hi, Linked(Num(1), Linked(hi, Undefined))),
   Linked(hi, Cyclic), Obj(<< <<"next", Cyclic>> >>), Linked(hi, Linked(hi, Cyclic))}

RECURSIVE HasCycle(_)
\* the value refers back to itself somewhere
HasCycle(v) ==
  \/ v = Cyclic
  \/ /\ v.t = "object"
     /\ \E j \in 1..Len(v.props) : HasCycle(v.props[j][2])

\* the calls the engine's call stack has room for
StackOverflow == Len(stack) >= MaxStack

Frame(value, path, i, acc) == [value |-> value, path |-> path, i |-> i, acc |-> acc]

\* validate(value, path) of node up to the loop over the schema: the result
\* of a call that makes no further call, or the frame of the call
Entered(self, value, path, heap) ==
  LET entered == <<Call("validate", self, value)>> IN
  IF IsNullish(value)
  THEN IF self.isOptionalField
       THEN [done |-> TRUE, res |-> At(WithTrace(success(value), entered), heap)]
       ELSE [done |-> TRUE,
             res |-> At(WithTrace(failureOf(formatError(self,
                          "Field is required", path)), entered), heap)]
  ELSE IF TypeOf(value) # "object" \/ value = Null \/ value.t = "array"
  THEN [done |-> TRUE,
        res |-> At(WithTrace(failureOf(formatError(self, "Must be an object",
                     path)), entered), heap)]
  ELSE [done |-> FALSE,
        frame |-> Frame(value, path, 1,
                    At(Acc(MissingRequired(self, value, path), <<>>, entered),
                       heap))]

\* the body of the loop over the schema once the field's validate returned
FieldReturned(self, frame, fieldResult) ==
  LET key == self.schema[frame.i][1]
      acc == frame.acc
      trace == acc.trace \o fieldResult.trace
  IN Frame(frame.value, frame.path, frame.i + 1,
       IF ~fieldResult.isValid
       THEN At(Acc(acc.errors \o fieldResult.errors, acc.value, trace),
               fieldResult.lastIndex)
       ELSE IF fieldResult.value # Undefined
       THEN At(Acc(acc.errors, SetProp(acc.value, key, fieldResult.value),
                   trace), fieldResult.lastIndex)
       ELSE At(Acc(acc.errors, acc.value, trace), fieldResult.lastIndex))

\* the frames after the call on top of them returned res
Resume(self, frames, res) ==
  LET n == Len(frames) IN
  [frames EXCEPT ![n] = FieldReturned(self, frames[n], res)]

\* value[key], a reference back to the root followed
Followed(value, key) ==
  LET v == Get(value, key) IN IF v = Cyclic THEN input ELSE v

CycleInit ==
  /\ validator \in {node, [node EXCEPT !.isOptionalField = TRUE],
                    [node EXCEPT !.allowUnknownKeys = TRUE]}
  /\ input \in CycleInputs
  /\ inPath \in Paths
  /\ steps = 0
  /\ result = NoResult
  /\ again = NoResult
  /\ lastIndex = NewRegExps
  /\ registered = <<>>
  /\ stack = <<>>
  /\ game = SeaBattleGame(config)
  /\ loop = Position("start", 0, NoResult)
  /\ enigma = Null

\* node.validate(input, inPath) is called
Call_node_validate ==
  /\ result = NoResult
  /\ stack = <<>>
  /\ LET e == Entered(validator, input, inPath, lastIndex) IN
     IF e.done
     THEN result' = e.res /\ stack' = stack
     ELSE result' = result /\ stack' = <<e.frame>>
  /\ UNCHANGED <<validator, steps, input, inPath, again, lastIndex, registered,
                 game, loop, enigma>>

\* one pass of the loop over the schema in the innermost call
Step_field ==
  /\ stack # <<>>
  /\ LET top == stack[Len(stack)]
         self == validator
     IN /\ top.i <= Len(self.schema)
        /\ LET key == self.schema[top.i][1]
               child == self.schema[top.i][2]
               fieldPath == fieldPathOf(top.path, key)
               value == Followed(top.value, key)
           IN IF child # Self
              THEN /\ stack' = Resume(self, stack,
                          validate(child, value, fieldPath, top.acc.lastIndex))
                   /\ result' = result
              ELSE LET e == Entered(self, value, fieldPath, top.acc.lastIndex)
                   IN IF e.done
                      THEN stack' = Resume(self, stack, e.res) /\ result' = result
                      ELSE IF StackOverflow
                      THEN /\ stack' = <<>>
                           /\ result' = At(Throw("RangeError", top.acc.trace),
                                           top.acc.lastIndex)
                      ELSE stack' = Append(stack, e.frame) /\ result' = result
  /\ UNCHANGED <<validator, steps, input, inPath, again, lastIndex, registered,
                 game, loop, enigma>>

\* the innermost call is through its schema: unknown fields, then its result
Step_return ==
  /\ stack # <<>>
  /\ LET n == Len(stack)
         top == stack[n]
         self == validator
     IN /\ top.i > Len(self.schema)
        /\ LET done == UnknownFields(self, top.value, top.path, 1, top.acc)
               res == At(WithTrace(Collected(done.errors, Obj(done.value)),
                                   done.trace), done.lastIndex)
           IN IF n = 1
              THEN result' = res /\ stack' = <<>>
              ELSE result' = result
                   /\ stack' = Resume(self, SubSeq(stack, 1, n - 1), res)
  /\ UNCHANGED <<validator, steps, input, inPath, again, lastIndex, registered,
                 game, loop, enigma>>

CycleNext == Call_node_validate \/ Step_field \/ Step_return

CycleSpec == CycleInit /\ [][CycleNext]_vars

\* a call that was made runs on: nothing else is scheduled
CycleFairSpec == CycleSpec /\ WF_vars(CycleNext)

(***************************************************************************)
(* Cyclic schemas                                                           *)
(***************************************************************************)
Finished == Called /\ stack = <<>>

\* the value made the object validator call itself
Recursed == input.t = "object" /\ Get(input, "next").t \in {"object", "cyclic"}

Accepts(candidate, value) ==
  LET res == validate(candidate, value, inPath, lastIndex) IN
  ~res.threw /\ res.isValid

\* C26: a union validator that is not optional rejects null and undefined
\* with the one error 'Field is required' (as formatError renders it) and
\* calls none of its candidates, whatever the candidates would answer.
C26_UnionRequiredBeforeCandidates ==
  (Called /\ validator.kind = "union" /\ ~validator.isOptionalField
     /\ IsNullish(input))
  => /\ ~result.threw
     /\ ~result.isValid
     /\ result.errors = <<formatError(validator, "Field is required", inPath)>>
     /\ result.trace = <<Call("validate", validator, input)>>

C26_Witness ==
  /\ Called
  /\ validator.kind = "union"
  /\ ~validator.isOptionalField
  /\ input = Null
  /\ \E i \in 1..Len(validator.validators) :
       /\ validator.validators[i].isOptionalField
       /\ Accepts(validator.validators[i], input)
  /\ result.errors = <<"Field is required at data">>

(***************************************************************************)
(* The CPU's guesses in a game                                              *)
(***************************************************************************)
\* a game whose ships are three squares long, so that a second hit leaves
\* the ship afloat and its neighbours join a queue that is not empty
LongShips == [numShips |-> 1, shipLength |-> 3]

FleetInit ==
  /\ NoSchema
  /\ game = SeaBattleGame(LongShips)
  /\ loop = Position("start", 0, NoResult)
  /\ stack = <<>>
  /\ enigma = Null

\* the game up to its end: no game of two turns sinks a ship of three squares
FleetNext == start \/ PlayerTurn \/ handleCPUTurn

FleetSpec == FleetInit /\ [][FleetNext]_vars

\* every queued target is on the board, not guessed yet, and queued once
QueueIsNew ==
  LET queue == game.aiPlayer.targetQueue
      board == game.player.board
  IN \A i \in 1..Len(queue) :
       /\ queue[i] \in Coordinates(board)
       /\ queue[i] \notin board.guesses
       /\ \A j \in 1..Len(queue) : queue[j] = queue[i] => j = i

\* handleCPUTurn made its guess: one coordinate of the board that had not
\* been guessed joined the guesses on the player's board
CPUGuessedNew ==
  (loop.pc = "cpuTurn" /\ loop'.pc # "cpuTurn")
  => \E coordinate \in Coordinates(game.player.board)
                       \ game.player.board.guesses :
       game'.player.board.guesses =
         game.player.board.guesses \cup {coordinate}

\* C27: in a game driven through handleCPUTurn, every coordinate makeGuess
\* returns is in bounds and was never guessed on the player's board (no CPU
\* guess is answered alreadyGuessed), and targetQueue never holds a guessed
\* coordinate or a duplicate.
C27_CPUGuessesAreNew == []QueueIsNew /\ [][CPUGuessedNew]_vars

\* the CPU guessed from a queue it had added a second hit's neighbours to
C27_Witness ==
  /\ game.aiPlayer.mode = "target"
  /\ Cardinality(game.player.board.guesses) >= 2
  /\ Len(game.aiPlayer.targetQueue) >= 2
  /\ \E i \in 1..Len(game.player.board.ships) :
       Cardinality({k \in 1..Len(game.player.board.ships[i].hits) :
                      game.player.board.ships[i].hits[k]}) >= 2

(***************************************************************************)
(* The end of a game                                                        *)
(***************************************************************************)
\* handlePlayerTurn processed a guess in this step
PlayerGuessed ==
  loop.pc = "playerTurn"
  /\ game'.aiPlayer.board.guesses # game.aiPlayer.board.guesses

\* handleCPUTurn processed a guess in this step
CPUGuessed ==
  loop.pc = "cpuTurn" /\ game'.player.board.guesses # game.player.board.guesses

GameEnds ==
  /\ PlayerGuessed =>
       /\ game'.gameOver <=> allShipsSunk(game'.aiPlayer.board)
       /\ game'.gameOver => game'.winner = Ref("player")
  /\ CPUGuessed =>
       /\ game'.gameOver <=> allShipsSunk(game'.player.board)
       /\ game'.gameOver => game'.winner = Ref("aiPlayer")
  /\ (~game.gameOver /\ game'.gameOver) => (PlayerGuessed \/ CPUGuessed)
  /\ game.gameOver =>
       /\ ~PlayerGuessed /\ ~CPUGuessed
       /\ \/ game' = game
          \/ loop'.pc = "start" /\ ~game'.gameOver /\ game'.winner = Null

\* C28: gameOver becomes true exactly when, after a guess, all ships of the
\* guessed side are sunk, and winner is then the side that guessed; once
\* gameOver is true no turn is taken and gameOver and winner stay as they are
\* until reset().
C28_GameOverWhenFleetSunk == [][GameEnds]_vars

\* the player sank the CPU's fleet and the CPU did not answer the last guess
C28_Witness ==
  /\ game.gameOver
  /\ game.winner = Ref("player")
  /\ loop.pc = "ended"
  /\ allShipsSunk(game.aiPlayer.board)
  /\ Cardinality(game.player.board.guesses)
       < Cardinality(game.aiPlayer.board.guesses)

(***************************************************************************)
(* The player's tracking board                                              *)
(***************************************************************************)
\* the symbol the tracking board shows at a coordinate
Tracked(coordinate) ==
  game.player.opponentBoard.grid[rowOf(coordinate)][colOf(coordinate)]

\* C29: after handlePlayerTurn processed a guess, the player's tracking board
\* (player.opponentBoard) holds the coordinate as guessed and shows 'X' at it
\* if the guess hit an AI ship and 'O' if it missed.
C29_TrackingBoardShowsHits ==
  /\ game.aiPlayer.board.guesses \subseteq game.player.opponentBoard.guesses
  /\ \A coordinate \in game.player.opponentBoard.guesses :
       Tracked(coordinate) =
         IF coordinate \in getAllShipLocations(game.aiPlayer.board)
         THEN "X" ELSE "O"

\* the part of C29 the code keeps: guessed coordinates are recorded, and a
\* miss shows 'O'
C29_TrackingBoardShowsMisses ==
  /\ game.aiPlayer.board.guesses \subseteq game.player.opponentBoard.guesses
  /\ \A coordinate \in game.player.opponentBoard.guesses :
       coordinate \notin getAllShipLocations(game.aiPlayer.board)
       => Tracked(coordinate) = "O"

(***************************************************************************)
(* The Enigma machine.  A string is the sequence of its characters, indexed *)
(* from 0 as in the code: At0(s, i) is s[i].                                *)
(***************************************************************************)
alphabet ==
  <<"A", "B", "C", "D", "E", "F", "G", "H", "I", "J", "K", "L", "M",
    "N", "O", "P", "Q", "R", "S", "T", "U", "V", "W", "X", "Y", "Z">>

At0(s, i) == s[i + 1]

\* s.indexOf(c), for a character that occurs in s
IndexIn(s, c) == (CHOOSE i \in 1..Len(s) : s[i] = c) - 1

\* alphabet.includes(c)
includes(s, c) == \E i \in 1..Len(s) : s[i] = c

\* n % m of JavaScript: the sign of the result is the sign of n
Remainder(n, m) == IF n >= 0 THEN n % m ELSE -((-n) % m)

mod(n, m) == Remainder(Remainder(n, m) + m, m)

WiringI ==
  <<"E", "K", "M", "F", "L", "G", "D", "Q", "V", "Z", "N", "T", "O",
    "W", "Y", "H", "X", "U", "S", "P", "A", "I", "B", "R", "C", "J">>

WiringII ==
  <<"A", "J", "D", "K", "S", "I", "R", "U", "X", "B", "L", "H", "W",
    "T", "M", "C", "Q", "G", "Z", "N", "P", "Y", "F", "V", "O", "E">>

WiringIII ==
  <<"B", "D", "F", "H", "J", "L", "C", "P", "R", "T", "X", "V", "Z",
    "N", "Y", "E", "I", "W", "G", "A", "K", "M", "U", "S", "Q", "O">>

ROTORS ==
  <<[wiring |-> WiringI, notch |-> "Q"],
    [wiring |-> WiringII, notch |-> "E"],
    [wiring |-> WiringIII, notch |-> "V"]>>

REFLECTOR ==
  <<"Y", "R", "U", "H", "Q", "S", "L", "D", "P", "X", "N", "G", "O",
    "K", "M", "I", "E", "B", "F", "Z", "C", "W", "V", "J", "A", "T">>

RECURSIVE plugboardSwapFrom(_, _, _)
\* for (const [a, b] of pairs), from the i-th pair on
plugboardSwapFrom(c, pairs, i) ==
  IF i > Len(pairs) THEN c
  ELSE IF c = pairs[i][1] THEN pairs[i][2]
  ELSE IF c = pairs[i][2] THEN pairs[i][1]
  ELSE plugboardSwapFrom(c, pairs, i + 1)

plugboardSwap(c, pairs) == plugboardSwapFrom(c, pairs, 1)

Rotor(wiring, notch, ringSetting, position) ==
  [wiring |-> wiring, notch |-> notch, ringSetting |-> ringSetting,
   position |-> position]

\* rotor.step(): the rotor afterwards
step(rotor) == [rotor EXCEPT !.position = mod(@ + 1, 26)]

atNotch(rotor) == At0(alphabet, rotor.position) = rotor.notch

forward(rotor, c) ==
  At0(rotor.wiring,
      mod(IndexIn(alphabet, c) + rotor.position - rotor.ringSetting, 26))

backward(rotor, c) ==
  At0(alphabet,
      mod(IndexIn(rotor.wiring, c) - rotor.position + rotor.ringSetting, 26))

\* new Enigma(rotorIDs, rotorPositions, ringSettings, plugboardPairs)
Enigma(rotorIDs, rotorPositions, ringSettings, plugboardPairs) ==
  [rotors |-> [i \in 1..Len(rotorIDs) |->
                 Rotor(ROTORS[rotorIDs[i] + 1].wiring,
                       ROTORS[rotorIDs[i] + 1].notch,
                       ringSettings[i], rotorPositions[i])],
   plugboardPairs |-> plugboardPairs]

\* this.stepRotors(): the rotors afterwards.  rotors[1], rotors[2] and
\* rotors[3] are the code's rotors[0] (left), rotors[1] (middle) and
\* rotors[2] (right).
stepRotors(rotors) ==
  LET middleAtNotch == atNotch(rotors[2])
      doubled == IF middleAtNotch
                 THEN [rotors EXCEPT ![2] = step(@), ![1] = step(@)]
                 ELSE rotors
      normal == IF atNotch(doubled[3])
                THEN [doubled EXCEPT ![2] = step(@)]
                ELSE doubled
  IN [normal EXCEPT ![3] = step(@)]

RECURSIVE Forwards(_, _, _)
\* for (let i = rotors.length - 1; i >= 0; i--) c = rotors[i].forward(c)
Forwards(rotors, c, i) ==
  IF i < 1 THEN c ELSE Forwards(rotors, forward(rotors[i], c), i - 1)

RECURSIVE Backwards(_, _, _)
\* for (let i = 0; i < rotors.length; i++) c = rotors[i].backward(c)
Backwards(rotors, c, i) ==
  IF i > Len(rotors) THEN c
  ELSE Backwards(rotors, backward(rotors[i], c), i + 1)

\* machine.encryptChar(c): the machine afterwards and the character returned
encryptChar(machine, c) ==
  IF ~includes(alphabet, c) THEN [machine |-> machine, returned |-> c]
  ELSE
    LET rotors == stepRotors(machine.rotors)
        plugged == plugboardSwap(c, machine.plugboardPairs)
        left == Forwards(rotors, plugged, Len(rotors))
        reflected == At0(REFLECTOR, IndexIn(alphabet, left))
        right == Backwards(rotors, reflected, 1)
    IN [machine |-> [machine EXCEPT !.rotors = rotors],
        returned |-> plugboardSwap(right, machine.plugboardPairs)]

\* the settings the machines of the model are built with: rotors at, next
\* to and away from their notches
RotorPositions ==
  {<<0, middle, right>> : middle \in {0, 3, 4}, right \in {0, 20, 21}}

RingSettings == {<<0, 0, 0>>, <<1, 2, 3>>}

PlugboardPairs == {<<>>, << <<"A", "B">>, <<"C", "D">> >>}

\* the characters encryptChar is called with
Keys == {"A", "C", "Z", " ", "a"}

EnigmaInit ==
  /\ validator = SchemaString
  /\ steps = 0
  /\ input = Undefined
  /\ inPath = ""
  /\ result = NoResult
  /\ again = NoResult
  /\ lastIndex = NewRegExps
  /\ registered = <<>>
  /\ game = SeaBattleGame(config)
  /\ loop = Position("start", 0, NoResult)
  /\ stack = <<>>
  /\ \E rotorPositions \in RotorPositions, ringSettings \in RingSettings,
        plugboardPairs \in PlugboardPairs :
       enigma = Enigma(<<0, 1, 2>>, rotorPositions, ringSettings,
                       plugboardPairs)

\* enigma.encryptChar(c) is called; result is the call and what it returned
Call_encryptChar(c) ==
  /\ steps < MaxKeys
  /\ LET done == encryptChar(enigma, c) IN
     /\ enigma' = done.machine
     /\ result' = [call |-> "encryptChar", arg |-> c,
                   returned |-> done.returned]
  /\ steps' = steps + 1
  /\ UNCHANGED <<validator, input, inPath, again, lastIndex, registered, game,
                 loop, stack>>

EnigmaNext == \E c \in Keys : Call_encryptChar(c)

EnigmaSpec == EnigmaInit /\ [][EnigmaNext]_vars

(***************************************************************************)
(* Rotor stepping                                                           *)
(***************************************************************************)
\* the rotor is one position further in this step
Advanced(i) ==
  enigma'.rotors[i].position = (enigma.rotors[i].position + 1) % 26

\* the rotor is where it was
Stayed(i) == enigma'.rotors[i].position = enigma.rotors[i].position

SteppedByRule ==
  IF ~includes(alphabet, result'.arg)
  THEN Stayed(1) /\ Stayed(2) /\ Stayed(3)
  ELSE /\ Advanced(3)
       /\ IF atNotch(enigma.rotors[2])
          THEN Advanced(2) /\ Advanced(1)
          ELSE /\ Stayed(1)
               /\ IF atNotch(enigma.rotors[3]) THEN Advanced(2) ELSE Stayed(2)

\* C30: on every encrypted letter the right rotor advances one position; if
\* the middle rotor is at its notch before the step, the middle and the left
\* rotor advance one position each; otherwise the middle rotor advances one
\* position iff the right rotor was at its notch and the left rotor stays;
\* no rotor advances more than one position, and a character that is not a
\* letter steps no rotor.
C30_RotorsStepOnce == [][SteppedByRule]_vars

\* the same rule for the letters typed with at most one of the middle and
\* the right rotor at its notch
C30_RotorsStepOnceApart ==
  [][(atNotch(enigma.rotors[2]) /\ atNotch(enigma.rotors[3]))
       \/ SteppedByRule]_vars

====
